---- MODULE Spec2Model ----
(***************************************************************************)
(* Lumina (Author-App2): the ebook-highlight import pipeline and the       *)
(* library operations around it.                                           *)
(*                                                                         *)
(* Strings are sequences of one-character strings, so that trim, split,    *)
(* indexOf, toLowerCase and the page pattern are computed as the code      *)
(* computes them.  JavaScript indexes are 0-based; the operators below     *)
(* take and return 0-based indexes and translate to TLA+'s 1-based         *)
(* sequences internally.                                                   *)
(***************************************************************************)
EXTENDS Integers, Sequences, FiniteSets, TLC

(***************************************************************************)
(* JavaScript string primitives                                            *)
(***************************************************************************)

UpperChars == <<"A","B","C","D","E","F","G","H","I","J","K","L","M",
                "N","O","P","Q","R","S","T","U","V","W","X","Y","Z">>

LowerChars == <<"a","b","c","d","e","f","g","h","i","j","k","l","m",
                "n","o","p","q","r","s","t","u","v","w","x","y","z">>

DigitChars == <<"0","1","2","3","4","5","6","7","8","9">>

\* String.prototype.toLowerCase on one character
lowerChar(c) ==
  IF \E i \in 1..26 : UpperChars[i] = c
    THEN LowerChars[CHOOSE i \in 1..26 : UpperChars[i] = c]
    ELSE c

\* String.prototype.toLowerCase
toLowerCase(s) == [i \in 1..Len(s) |-> lowerChar(s[i])]

\* the characters String.prototype.trim and the regex class \s remove
isSpace(c) == c \in {" ", "\n", "\r", "\t"}

isDigit(c) == \E i \in 1..10 : DigitChars[i] = c

Min(S) == CHOOSE m \in S : \A k \in S : m <= k

Max(S) == CHOOSE m \in S : \A k \in S : m >= k

\* String.prototype.trim
trim(s) ==
  LET keep == {i \in 1..Len(s) : ~isSpace(s[i])}
  IN  IF keep = {} THEN <<>> ELSE SubSeq(s, Min(keep), Max(keep))

\* s.startsWith(p, i): p occurs in s at 0-based position i
startsWithAt(s, p, i) ==
  /\ i >= 0
  /\ i + Len(p) <= Len(s)
  /\ \A k \in 1..Len(p) : s[i + k] = p[k]

\* String.prototype.startsWith
startsWith(s, p) == startsWithAt(s, p, 0)

\* s.indexOf(p, from): 0-based index of the first occurrence at or after from, -1 when none
indexOfFrom(s, p, from) ==
  LET hits == {j \in from..(Len(s) - Len(p)) : startsWithAt(s, p, j)}
  IN  IF hits = {} THEN -1 ELSE Min(hits)

\* String.prototype.indexOf
indexOf(s, p) == indexOfFrom(s, p, 0)

\* String.prototype.includes
includes(s, p) == indexOf(s, p) # -1

\* String.prototype.lastIndexOf
lastIndexOf(s, p) ==
  LET hits == {j \in 0..(Len(s) - Len(p)) : startsWithAt(s, p, j)}
  IN  IF hits = {} THEN -1 ELSE Max(hits)

\* String.prototype.substring(a, b): arguments clamped to [0, length] and swapped when a > b
substring(s, a, b) ==
  LET ca == IF a < 0 THEN 0 ELSE IF a > Len(s) THEN Len(s) ELSE a
      cb == IF b < 0 THEN 0 ELSE IF b > Len(s) THEN Len(s) ELSE b
      lo == IF ca <= cb THEN ca ELSE cb
      hi == IF ca <= cb THEN cb ELSE ca
  IN  SubSeq(s, lo + 1, hi)

\* String.prototype.slice(a) on a string or Array.prototype.slice(a), a >= 0
sliceFrom(s, a) == SubSeq(s, a + 1, Len(s))

\* String.prototype.split(sep) with a non-empty string separator
RECURSIVE split(_, _)
split(s, sep) ==
  LET j == indexOf(s, sep)
  IN  IF j = -1 THEN <<s>>
      ELSE <<SubSeq(s, 1, j)>> \o split(sliceFrom(s, j + Len(sep)), sep)

\* String.prototype.split(/\r?\n/)
RECURSIVE splitLines(_)
splitLines(s) ==
  LET j == indexOf(s, <<"\n">>)
  IN  IF j = -1 THEN <<s>>
      ELSE LET cut == IF j > 0 /\ s[j] = "\r" THEN j - 1 ELSE j
           IN  <<SubSeq(s, 1, cut)>> \o splitLines(sliceFrom(s, j + 1))

\* Array.prototype.join(sep)
RECURSIVE join(_, _)
join(parts, sep) ==
  IF parts = <<>> THEN <<>>
  ELSE IF Len(parts) = 1 THEN parts[1]
  ELSE parts[1] \o sep \o join(Tail(parts), sep)

\* an absent optional string (page?: string); the patterns below never capture ""
undefined == <<>>

\* the maximal run of digits of s that starts at 0-based position i
RECURSIVE digitRun(_, _)
digitRun(s, i) ==
  IF i < Len(s) /\ isDigit(s[i + 1]) THEN <<s[i + 1]>> \o digitRun(s, i + 1) ELSE <<>>

\* s.match(/page (\d+)/i): capture group 1 of the first match, undefined when none
matchPage(s) ==
  LET low  == toLowerCase(s)
      hits == {j \in 0..(Len(s) - 6) :
                 startsWithAt(low, <<"p","a","g","e"," ">>, j) /\ isDigit(s[j + 6])}
  IN  IF hits = {} THEN undefined ELSE digitRun(s, Min(hits) + 5)

\* the index after the whitespace run of s that starts at 0-based position i
RECURSIVE skipSpaces(_, _)
skipSpaces(s, i) ==
  IF i < Len(s) /\ isSpace(s[i + 1]) THEN skipSpaces(s, i + 1) ELSE i

\* s.match(/page\s*(\d+)/i): capture group 1 of the first match, undefined when none
matchPageHtml(s) ==
  LET low  == toLowerCase(s)
      hits == {j \in 0..(Len(s) - 5) :
                 /\ startsWithAt(low, <<"p","a","g","e">>, j)
                 /\ skipSpaces(s, j + 4) < Len(s)
                 /\ isDigit(s[skipSpaces(s, j + 4) + 1])}
  IN  IF hits = {} THEN undefined ELSE digitRun(s, skipSpaces(s, Min(hits) + 4))

\* the value of one decimal digit
digitValue(c) == (CHOOSE i \in 1..10 : DigitChars[i] = c) - 1

\* parseInt on a run of decimal digits
RECURSIVE parseInt(_)
parseInt(s) ==
  IF s = <<>> THEN 0
  ELSE parseInt(SubSeq(s, 1, Len(s) - 1)) * 10 + digitValue(s[Len(s)])

(***************************************************************************)
(* services/ebookImportService.ts                                          *)
(***************************************************************************)

\* the literal '==========' that separates clippings entries
Separator == <<"=","=","=","=","=","=","=","=","=","=">>

UnknownAuthor == <<"U","n","k","n","o","w","n"," ","A","u","t","h","o","r">>

ImportedEbook == <<"I","m","p","o","r","t","e","d"," ","E","b","o","o","k">>

BookmarkWord == <<"b","o","o","k","m","a","r","k">>

\* const lines = section.trim().split(/\r?\n/)
sectionLines(section) == splitLines(trim(section))

\* title of a clippings title line (lines[0].trim())
clipTitle(titleLine) ==
  LET lastParenIndex == lastIndexOf(titleLine, <<"(">>)
  IN  IF lastParenIndex > 0 THEN trim(substring(titleLine, 0, lastParenIndex))
      ELSE titleLine

\* author of a clippings title line (lines[0].trim())
clipAuthor(titleLine) ==
  LET lastParenIndex == lastIndexOf(titleLine, <<"(">>)
      rawAuthor == trim(substring(titleLine, lastParenIndex + 1, Len(titleLine) - 1))
      raw   == split(rawAuthor, <<",">>)
      parts == [i \in 1..Len(raw) |-> trim(raw[i])]
  IN  IF lastParenIndex > 0
        THEN IF includes(rawAuthor, <<",">>)
               THEN IF Len(parts) = 2 THEN parts[2] \o <<" ">> \o parts[1] ELSE rawAuthor
               ELSE rawAuthor
        ELSE UnknownAuthor

\* the while loop that skips blank lines from index 2 (0-based index of the first body line)
RECURSIVE contentStart(_, _)
contentStart(lines, i) ==
  IF i < Len(lines) /\ trim(lines[i + 1]) = <<>> THEN contentStart(lines, i + 1) ELSE i

\* const content = lines.slice(contentStartIndex).join('\n').trim()
clipContent(lines) == trim(join(sliceFrom(lines, contentStart(lines, 2)), <<"\n">>))

\* a variant that looks for the lower-case word only
discardedLowerCase(content) == content = <<>> \/ startsWith(content, BookmarkWord)

\* !content || content.toLowerCase().startsWith('bookmark')
discarded(content) == content = <<>> \/ startsWith(toLowerCase(content), BookmarkWord)

\* the key of the grouping map
bookKey(title, author) == toLowerCase(title \o <<"-">> \o author)

\* bookMap.has(key) / bookMap.get(key): position of key in the insertion-ordered map, 0 when absent
mapIndex(bookMap, key) ==
  IF \E i \in 1..Len(bookMap) : bookMap[i].key = key
    THEN CHOOSE i \in 1..Len(bookMap) : bookMap[i].key = key
    ELSE 0

\* a variant that enters the book into the map before it looks at the body
clipSectionBookFirst(bookMap, section, now) ==
  LET lines     == sectionLines(section)
      titleLine == trim(lines[1])
      title     == clipTitle(titleLine)
      author    == clipAuthor(titleLine)
      content   == clipContent(lines)
      key       == bookKey(title, author)
      hl        == [text |-> content, page |-> matchPage(trim(lines[2])), createdAt |-> now]
      new       == IF discarded(content) THEN <<>> ELSE <<hl>>
      at        == mapIndex(bookMap, key)
  IN  IF Len(lines) < 2 THEN bookMap
      ELSE IF at = 0
        THEN Append(bookMap, [key |-> key, title |-> title, author |-> author,
                              highlights |-> new])
        ELSE [bookMap EXCEPT ![at].highlights = @ \o new]

\* the body of sections.forEach: the map after one section
clipSection(bookMap, section, now) ==
  LET lines     == sectionLines(section)
      titleLine == trim(lines[1])
      title     == clipTitle(titleLine)
      author    == clipAuthor(titleLine)
      page      == matchPage(trim(lines[2]))
      content   == clipContent(lines)
      key       == bookKey(title, author)
      hl        == [text |-> content, page |-> page, createdAt |-> now]
      at        == mapIndex(bookMap, key)
  IN  IF Len(lines) < 2 THEN bookMap
      ELSE IF discarded(content) THEN bookMap
      ELSE IF at = 0
        THEN Append(bookMap, [key |-> key, title |-> title, author |-> author,
                              highlights |-> <<hl>>])
        ELSE [bookMap EXCEPT ![at].highlights = Append(@, hl)]

RECURSIVE clipSections(_, _, _)
clipSections(bookMap, sections, now) ==
  IF sections = <<>> THEN bookMap
  ELSE clipSections(clipSection(bookMap, Head(sections), now), Tail(sections), now)

\* Array.from(bookMap.values())
mapValues(bookMap) ==
  [i \in 1..Len(bookMap) |->
     [title |-> bookMap[i].title, author |-> bookMap[i].author,
      highlights |-> bookMap[i].highlights]]

\* parseKindleClippings(text), with the clock reading new Date() returns
parseKindleClippings(text, now) ==
  LET sections == SelectSeq(split(text, Separator), LAMBDA s : Len(trim(s)) > 0)
  IN  mapValues(clipSections(<<>>, sections, now))

(***************************************************************************)
(* An import text is a record [raw, doc]: raw is the text itself and doc   *)
(* is what DOMParser.parseFromString and the selector queries of           *)
(* parseHtmlHighlights return for it:                                      *)
(*   titleText   textContent of the first 'h1, .bookTitle, .title,         *)
(*               .metadata h1' element (undefined when there is none)      *)
(*   authorText  the same for 'h2, .authors, .author, .metadata h2'        *)
(*   noteTexts   textContent of each '.noteText' element, document order   *)
(*   elements    for each '.bm-item, .highlight, .annotation, blockquote,  *)
(*               .item' element: childText, the textContent of its first   *)
(*               '.bm-text, .text, p' descendant (undefined when none),    *)
(*               and textContent, its own                                  *)
(***************************************************************************)

\* x?.textContent?.trim() || fallback
textOr(text, fallback) == IF trim(text) # <<>> THEN trim(text) ELSE fallback

\* Strategy 1: one highlight per '.noteText' element with non-empty trimmed text
kindleNoteHighlights(noteTexts) ==
  LET kept == SelectSeq(noteTexts, LAMBDA t : trim(t) # <<>>)
  IN  [i \in 1..Len(kept) |-> [text |-> trim(kept[i]), page |-> undefined]]

\* a variant that keeps the white space around the text
elementTextRaw(el) == IF trim(el.childText) # <<>> THEN el.childText ELSE el.textContent

\* Strategy 2: text of one matched element
elementText(el) == textOr(el.childText, trim(el.textContent))

\* Strategy 2: one highlight per matched element whose text is longer than 5
generalHighlights(elements) ==
  LET kept == SelectSeq(elements,
                        LAMBDA el : elementText(el) # <<>> /\ Len(elementText(el)) > 5)
  IN  [i \in 1..Len(kept) |->
         [text |-> elementText(kept[i]), page |-> matchPageHtml(kept[i].textContent)]]

\* a variant that goes on to Strategy 2 when Strategy 1 found no text
parseHtmlHighlightsBoth(doc) ==
  LET title      == textOr(doc.titleText, ImportedEbook)
      author     == textOr(doc.authorText, UnknownAuthor)
      highlights == IF Len(kindleNoteHighlights(doc.noteTexts)) > 0
                      THEN kindleNoteHighlights(doc.noteTexts)
                      ELSE generalHighlights(doc.elements)
  IN  IF Len(highlights) > 0
        THEN <<[title |-> title, author |-> author, highlights |-> highlights]>>
        ELSE <<>>

\* parseHtmlHighlights(htmlContent), on the document DOMParser returns for htmlContent
parseHtmlHighlights(doc) ==
  LET title      == textOr(doc.titleText, ImportedEbook)
      author     == textOr(doc.authorText, UnknownAuthor)
      highlights == IF Len(doc.noteTexts) > 0
                      THEN kindleNoteHighlights(doc.noteTexts)
                      ELSE generalHighlights(doc.elements)
  IN  IF Len(highlights) > 0
        THEN <<[title |-> title, author |-> author, highlights |-> highlights]>>
        ELSE <<>>

DoctypeMarker == <<"<","!","D","O","C","T","Y","P","E"," ","h","t","m","l",">">>

HtmlMarker == <<"<","h","t","m","l",">">>

\* a variant that looks for HTML first
parseImportTextHtmlFirst(text, now) ==
  LET trimmed == trim(text.raw)
  IN  IF \/ startsWith(trimmed, <<"<">>)
         \/ includes(trimmed, DoctypeMarker)
         \/ includes(trimmed, HtmlMarker)
        THEN parseHtmlHighlights(text.doc)
      ELSE IF includes(trimmed, Separator) THEN parseKindleClippings(trimmed, now)
      ELSE <<>>

\* parseImportText(text)
parseImportText(text, now) ==
  LET trimmed == trim(text.raw)
  IN  IF includes(trimmed, Separator) THEN parseKindleClippings(trimmed, now)
      ELSE IF \/ startsWith(trimmed, <<"<">>)
              \/ includes(trimmed, DoctypeMarker)
              \/ includes(trimmed, HtmlMarker)
        THEN parseHtmlHighlights(text.doc)
      ELSE <<>>

(***************************************************************************)
(* Strings of the inputs                                                   *)
(***************************************************************************)

\* "Dune"
sDune ==
  <<"D","u","n","e">>

\* "Emma"
sEmma ==
  <<"E","m","m","a">>

\* "Frank Herbert"
sFrankHerbert ==
  <<"F","r","a","n","k"," ","H","e","r","b","e","r","t">>

\* "Jane Austen"
sJaneAusten ==
  <<"J","a","n","e"," ","A","u","s","t","e","n">>

\* "fear"
sFear ==
  <<"f","e","a","r">>

\* "why"
sNote ==
  <<"w","h","y">>

\* "7"
sSeven ==
  <<"7">>

\* a highlight of Dune on page 4
entryDuneFear ==
  <<"D","u","n","e"," ","(","H","e","r","b","e","r","t",","," ","F","r","a","n","k",")","\n",
  "-"," ","Y","o","u","r"," ","H","i","g","h","l","i","g","h","t"," ","o","n"," ","p","a","g",
  "e"," ","4"," ","|"," ","L","o","c","a","t","i","o","n"," ","1","0","\n","\n","f","e","a","r",
  "\n">>

\* a highlight of Dune on page 5, with CRLF line ends
entryDuneSand ==
  <<"D","u","n","e"," ","(","H","e","r","b","e","r","t",","," ","F","r","a","n","k",")","\r",
  "\n","-"," ","Y","o","u","r"," ","H","i","g","h","l","i","g","h","t"," ","o","n"," ","P","a",
  "g","e"," ","5","\r","\n","\r","\n","s","a","n","d","\r","\n">>

\* the text of entryDuneFear under another page and another letter case of the title
entryDuneFearPage9 ==
  <<"D","U","N","E"," ","(","H","e","r","b","e","r","t",","," ","F","r","a","n","k",")","\n",
  "-"," ","Y","o","u","r"," ","H","i","g","h","l","i","g","h","t"," ","o","n"," ","p","a","g",
  "e"," ","9","\n","\n","f","e","a","r","\n">>

\* a highlight of Emma with a location and no page
entryEmmaHope ==
  <<"E","m","m","a"," ","(","A","u","s","t","e","n",","," ","J","a","n","e",")","\n","-"," ",
  "Y","o","u","r"," ","H","i","g","h","l","i","g","h","t"," ","a","t"," ","L","o","c","a","t",
  "i","o","n"," ","7","\n","\n","h","o","p","e","\n">>

\* a highlight of a Dune by Herbert
entryDuneByHerbert ==
  <<"D","u","n","e"," ","(","H","e","r","b","e","r","t",")","\n","-"," ","Y","o","u","r"," ",
  "H","i","g","h","l","i","g","h","t"," ","o","n"," ","p","a","g","e"," ","4","\n","\n","f","e",
  "a","r","\n">>

\* another highlight of the Dune by Herbert
entryDuneByHerbertSand ==
  <<"D","u","n","e"," ","(","H","e","r","b","e","r","t",")","\n","-"," ","Y","o","u","r"," ",
  "H","i","g","h","l","i","g","h","t"," ","o","n"," ","p","a","g","e"," ","6","\n","\n","s","a",
  "n","d","\n">>

\* the same highlight text in a dune by Anderson
entryDuneByAnderson ==
  <<"d","u","n","e"," ","(","A","n","d","e","r","s","o","n",")","\n","-"," ","Y","o","u","r",
  " ","H","i","g","h","l","i","g","h","t"," ","o","n"," ","p","a","g","e"," ","9","\n","\n","f",
  "e","a","r","\n">>

\* a bookmark: an entry with no body
entryBookmark ==
  <<"D","u","n","e"," ","(","H","e","r","b","e","r","t",","," ","F","r","a","n","k",")","\n",
  "-"," ","Y","o","u","r"," ","B","o","o","k","m","a","r","k"," ","o","n"," ","p","a","g","e",
  " ","4","\n","\n","\n">>

\* a note whose body begins with the word bookmark
entryNote ==
  <<"D","u","n","e"," ","(","H","e","r","b","e","r","t",","," ","F","r","a","n","k",")","\n",
  "-"," ","Y","o","u","r"," ","N","o","t","e"," ","o","n"," ","p","a","g","e"," ","4","\n","\n",
  "B","o","o","k","m","a","r","k"," ","t","h","i","s","\n">>

\* the two clippings entries of Moby Dick
entryMobyDickPage10 ==
  <<"M","o","b","y"," ","D","i","c","k"," ","(","M","e","l","v","i","l","l","e",","," ","H","e",
  "r","m","a","n",")","\n","-"," ","Y","o","u","r"," ","H","i","g","h","l","i","g","h","t"," ",
  "o","n"," ","p","a","g","e"," ","1","0"," ","|"," ","L","o","c","a","t","i","o","n"," ","1",
  "5","0","-","1","5","1","\n","\n","C","a","l","l"," ","m","e"," ","I","s","h","m","a","e","l",
  ".","\n">>

entryMobyDickPage20 ==
  <<"M","o","b","y"," ","D","i","c","k"," ","(","M","e","l","v","i","l","l","e",","," ","H","e",
  "r","m","a","n",")","\n","-"," ","Y","o","u","r"," ","H","i","g","h","l","i","g","h","t"," ",
  "o","n"," ","p","a","g","e"," ","2","0"," ","|"," ","L","o","c","a","t","i","o","n"," ","3",
  "0","0","-","3","0","1","\n","\n","I","t"," ","i","s"," ","a"," ","w","a","y"," ","I"," ","h",
  "a","v","e",".","\n">>

sMobyDick ==
  <<"M","o","b","y"," ","D","i","c","k">>

sHermanMelville ==
  <<"H","e","r","m","a","n"," ","M","e","l","v","i","l","l","e">>

sCallMeIshmael ==
  <<"C","a","l","l"," ","m","e"," ","I","s","h","m","a","e","l",".">>

sItIsAWayIHave ==
  <<"I","t"," ","i","s"," ","a"," ","w","a","y"," ","I"," ","h","a","v","e",".">>

\* a text in neither format
rawPlain ==
  <<"h","e","l","l","o"," ","w","o","r","l","d">>

\* an HTML export
rawHtml ==
  <<"<","h","1",">","E","m","m","a","<","/","h","1",">","<","b","l","o","c","k","q","u","o","t",
  "e",">","h","o","p","e","f","u","l"," ","p","a","g","e"," ","3","<","/","b","l","o","c","k",
  "q","u","o","t","e",">","<","b","l","o","c","k","q","u","o","t","e",">","t","i","n","y","<",
  "/","b","l","o","c","k","q","u","o","t","e",">">>

\* textContent of the first blockquote of rawHtml
sHopefulPage3 ==
  <<"h","o","p","e","f","u","l"," ","p","a","g","e"," ","3">>

\* textContent of the second blockquote of rawHtml
sTiny ==
  <<"t","i","n","y">>

\* the message of the Error handleBulkImport throws
NoHighlightsMessage ==
  <<"N","o"," ","h","i","g","h","l","i","g","h","t","s"," ","d","e","t","e","c","t","e","d"," ",
  "i","n"," ","t","h","a","t"," ","f","i","l","e",".">>

\* the alert of handleAddBook (its first sentence)
BookNotFoundMessage ==
  <<"B","o","o","k"," ","n","o","t"," ","f","o","u","n","d",".">>

\* the document of a text DOMParser finds no element in
emptyDoc == [titleText |-> undefined, authorText |-> undefined,
             noteTexts |-> <<>>, elements |-> <<>>]

\* the document DOMParser returns for rawHtml
htmlDoc == [titleText |-> sEmma, authorText |-> undefined, noteTexts |-> <<>>,
            elements |-> << [childText |-> undefined, textContent |-> sHopefulPage3],
                            [childText |-> undefined, textContent |-> sTiny] >>]

\* one clippings entry followed by its separator line
entry(e) == e \o Separator \o <<"\n">>

\* the files a user may load into the import dialog
ImportTexts ==
  << [raw |-> entry(entryDuneFear) \o entry(entryDuneSand), doc |-> emptyDoc],
     [raw |-> entry(entryDuneFearPage9), doc |-> emptyDoc],
     [raw |-> entry(entryEmmaHope) \o entry(entryDuneByHerbert) \o entry(entryDuneByAnderson)
                \o entry(entryDuneByHerbertSand),
      doc |-> emptyDoc],
     [raw |-> entry(entryBookmark) \o entry(entryNote), doc |-> emptyDoc],
     [raw |-> rawPlain, doc |-> emptyDoc],
     [raw |-> rawHtml, doc |-> htmlDoc],
     [raw |-> entry(entryMobyDickPage10) \o entry(entryMobyDickPage20), doc |-> emptyDoc] >>

\* volumeInfo records the Google Books API may return as items[0]
GoogleInfos ==
  { [title |-> sDune, authors |-> <<sFrankHerbert>>, thumbnail |-> TRUE],
    [title |-> sEmma, authors |-> <<>>, thumbnail |-> FALSE] }

\* what fetch(searchUrl) may give: a failure (network error or !response.ok), no item, one item
Responses ==
  {[ok |-> FALSE, items |-> <<>>], [ok |-> TRUE, items |-> <<>>]}
    \cup {[ok |-> TRUE, items |-> <<info>>] : info \in GoogleInfos}

(***************************************************************************)
(* Bounds                                                                  *)
(***************************************************************************)

\* identifiers crypto.randomUUID may hand out before the user starts no further operation
MaxIds == 3

\* the same, where the user only imports
MaxImportIds == 9

\* imports that may be awaiting a metadata lookup at the same time
MaxInFlight == 1

\* identifiers the application may draw when it is used one operation at a time
MaxSeqIds == 4

(***************************************************************************)
(* State                                                                   *)
(***************************************************************************)

VARIABLES
  lsBooks,            \* localStorage['lumina_books'], parsed
  lsHighlights,       \* localStorage['lumina_highlights'], parsed
  nextId,             \* the next value crypto.randomUUID returns
  clock,              \* the next value new Date() returns
  route,              \* the route HashRouter renders: "LIBRARY" or "BOOK_DETAILS"
  alert,              \* the message of the alert() dialog on screen, NoAlert when none
  books,              \* Library: useState books
  isImportModalOpen,  \* Library: useState isImportModalOpen
  importSummary,      \* Library: useState importSummary, null as <<>>
  isAdding,           \* Library: useState isAdding
  text,               \* ImportModal: useState text, as an index of ImportTexts, '' as 0
  loading,            \* ImportModal: useState loading
  imports,            \* the handleBulkImport calls suspended at await searchForBook
  adds,               \* the handleAddBook calls suspended at await searchForBook
  book,               \* BookDetail: useState book, null as <<>>
  highlights,         \* BookDetail: useState highlights
  selectedHighlight,  \* BookDetail: useState selectedHighlight, null as <<>>
  completed,          \* history: the handleBulkImport call that returned last, as <<call>>
  importText,         \* the argument of a call of the import service, null when none
  importedBooksData,  \* what that call returned, with the function called; null before
  isOpen,             \* CameraModal: the prop isOpen
  error,              \* CameraModal: useState error, null as <<>>
  isStreaming,        \* CameraModal: useState isStreaming
  videoRef,           \* CameraModal: videoRef.current, null as <<>>, else <<the <video> element>>
  requests,           \* the startCamera calls suspended at await getUserMedia
  streams,            \* the MediaStreams getUserMedia has returned: "live" or "ended"
  captured            \* the number of images takePhoto has passed to onCapture

vars == <<lsBooks, lsHighlights, nextId, clock, route, alert, books, isImportModalOpen,
          importSummary, isAdding, text, loading, imports, adds, book, highlights,
          selectedHighlight, completed, importText, importedBooksData,
          isOpen, error, isStreaming, videoRef, requests, streams, captured>>

parserVars == <<importText, importedBooksData>>

cameraVars == <<isOpen, error, isStreaming, videoRef, requests, streams, captured>>

appVars == <<lsBooks, lsHighlights, nextId, clock, route, alert, books, isImportModalOpen,
             importSummary, isAdding, text, loading, imports, adds, book, highlights,
             selectedHighlight, completed>>

libraryVars == <<books, isImportModalOpen, importSummary, isAdding, text, loading>>

detailVars == <<book, highlights, selectedHighlight>>

storeVars == <<lsBooks, lsHighlights>>

\* null, for a value that is a Book, a Highlight or an ImportSummary otherwise (held as <<value>>)
null == <<>>

\* no alert() dialog is on screen
NoAlert == <<>>

\* a Highlight without pageNumber (JSON.stringify drops the undefined field)
NoPage == -1

\* the application has started on an empty store
AppInit ==
  /\ lsBooks = <<>>
  /\ lsHighlights = <<>>
  /\ nextId = 1
  /\ clock = 1
  /\ route = "LIBRARY"
  /\ alert = NoAlert
  /\ books = <<>>
  /\ isImportModalOpen = FALSE
  /\ importSummary = null
  /\ isAdding = FALSE
  /\ text = 0
  /\ loading = FALSE
  /\ imports = <<>>
  /\ adds = <<>>
  /\ book = null
  /\ highlights = <<>>
  /\ selectedHighlight = null
  /\ completed = <<>>

\* <CameraModal isOpen={false} /> has mounted: nothing is rendered, no camera was asked for
CameraInit ==
  /\ isOpen = FALSE
  /\ error = null
  /\ isStreaming = FALSE
  /\ videoRef = null
  /\ requests = <<>>
  /\ streams = <<>>
  /\ captured = 0

\* the application has started; the import service has not been called
Init ==
  /\ AppInit
  /\ importText = null
  /\ importedBooksData = null
  /\ CameraInit

(***************************************************************************)
(* services/geminiService.ts                                               *)
(***************************************************************************)

IsbnPrefix == <<"i","s","b","n",":">>

\* `https://placehold.co/400x600?text=${encodeURIComponent(title)}`
placeholderCover(title) == <<"placehold.co", title>>

\* a variant that never reads volumeInfo.authors
searchForBookNoAuthors(query, response, uuid) ==
  IF response.ok /\ Len(response.items) > 0
    THEN <<[id |-> uuid, title |-> response.items[1].title, author |-> UnknownAuthor,
            coverUrl |-> placeholderCover(response.items[1].title), totalHighlights |-> 0]>>
  ELSE null

\* searchForBook(query), given what fetch returns and the value of crypto.randomUUID()
searchForBook(query, response, uuid) ==
  IF ~response.ok THEN null
  ELSE IF Len(response.items) > 0
    THEN LET info     == response.items[1]
             isIsbn   == startsWith(query, IsbnPrefix)
             coverUrl == IF info.thumbnail THEN <<"books.google.com">>
                         ELSE IF isIsbn
                           THEN <<"covers.openlibrary.org", sliceFrom(query, Len(IsbnPrefix))>>
                         ELSE placeholderCover(info.title)
         IN  <<[id |-> uuid, title |-> info.title,
                author |-> IF Len(info.authors) > 0 THEN info.authors[1] ELSE UnknownAuthor,
                coverUrl |-> coverUrl, totalHighlights |-> 0]>>
  ELSE null

(***************************************************************************)
(* App.tsx: Library.handleBulkImport                                       *)
(*                                                                         *)
(* A call of handleBulkImport is a record: its parameter (text), its       *)
(* locals (parsed is importedBooksData, k the 1-based index of iBook in    *)
(* it, currentBooks, allHighlights, addedCount, updates), the query of     *)
(* the searchForBook it awaits (query), and whether the Library that made  *)
(* the call has been unmounted since (orphan).  While it runs it also      *)
(* carries the clock (now), the next uuid and where it stopped (pc).       *)
(* Its history fields are read by no action: what it read from the store   *)
(* (readBooks, readHighlights), the lookups it made (lookups: for each,    *)
(* the index k of the parsed book, the query, what fetch returned and the  *)
(* book searchForBook made of it), for each parsed book it has processed   *)
(* the id of bookObj (targets) and the length of allHighlights after it    *)
(* (marks), and, once it has returned, whether it ran the text of the      *)
(* call that returned before it on the library that call wrote (repeat).   *)
(***************************************************************************)

\* currentBooks.find(b => b.title.toLowerCase() === iBook.title.toLowerCase()), as a 1-based
\* index of currentBooks, 0 when find returns undefined
findBookByTitle(currentBooks, title) ==
  LET hits == {i \in 1..Len(currentBooks) :
                 toLowerCase(currentBooks[i].title) = toLowerCase(title)}
  IN  IF hits = {} THEN 0 ELSE Min(hits)

\* a variant that compares the highlight's own id with the book's id
highlightExistsById(allHighlights, bookId, hText) ==
  \E i \in 1..Len(allHighlights) :
    allHighlights[i].id = bookId /\ allHighlights[i].text = hText

\* allHighlights.some(eh => eh.bookId === bookObj.id && eh.text === h.text)
highlightExists(allHighlights, bookId, hText) ==
  \E i \in 1..Len(allHighlights) :
    allHighlights[i].bookId = bookId /\ allHighlights[i].text = hText

\* h.page ? parseInt(h.page) : undefined
importPageNumber(page) == IF page # undefined THEN parseInt(page) ELSE NoPage

\* the Highlight handleBulkImport pushes for the parsed highlight h
importedHighlight(uuid, bookId, h, now) ==
  [id |-> uuid, bookId |-> bookId, text |-> h.text, pageNumber |-> importPageNumber(h.page),
   thoughts |-> <<>>, createdAt |-> now, source |-> "digital"]

\* iBook.highlights.forEach(...): st is [allHighlights, newHighlightsInBook, uuid]
RECURSIVE importHighlights(_, _, _, _)
importHighlights(st, bookId, parsedHighlights, now) ==
  IF parsedHighlights = <<>> THEN st
  ELSE LET h == Head(parsedHighlights)
           exists == highlightExists(st.allHighlights, bookId, h.text)
           pushed == [allHighlights |->
                        Append(st.allHighlights, importedHighlight(st.uuid, bookId, h, now)),
                      newHighlightsInBook |-> st.newHighlightsInBook + 1,
                      uuid |-> st.uuid + 1]
       IN  importHighlights(IF exists THEN st ELSE pushed, bookId, Tail(parsedHighlights), now)

\* a variant that pushes an entry for every parsed book
pushUpdateAlways(updates, title, newHighlightsInBook) ==
  Append(updates, [title |-> title, newCount |-> newHighlightsInBook])

\* updates.push({ title: iBook.title, newCount: newHighlightsInBook }) when newHighlightsInBook > 0
pushUpdate(updates, title, newHighlightsInBook) ==
  IF newHighlightsInBook > 0
    THEN Append(updates, [title |-> title, newCount |-> newHighlightsInBook])
    ELSE updates

\* the member of a set of one value: the({f(x) : x \in {e}}) is f(e), with e evaluated once
the(S) == CHOOSE x \in S : TRUE

\* the rest of one loop iteration, once bookObj is currentBooks[p]
importBook(run, p) ==
  LET iBook == run.parsed[run.k]
      done  == importHighlights([allHighlights |-> run.allHighlights,
                                 newHighlightsInBook |-> 0, uuid |-> run.uuid],
                                run.currentBooks[p].id, iBook.highlights, run.now)
  IN  the({[run EXCEPT !.currentBooks[p].totalHighlights = @ + st.newHighlightsInBook,
                       !.allHighlights = st.allHighlights,
                       !.addedCount = @ + st.newHighlightsInBook,
                       !.updates = pushUpdate(@, iBook.title, st.newHighlightsInBook),
                       !.uuid = st.uuid,
                       !.k = @ + 1,
                       !.targets = Append(@, run.currentBooks[p].id),
                       !.marks = Append(@, Len(st.allHighlights))] : st \in {done}})

\* for (const iBook of importedBooksData) from iBook = parsed[k], up to the next
\* await searchForBook (pc = "await") or the end of the loop (pc = "write")
RECURSIVE importLoop(_)
importLoop(run) ==
  IF run.k > Len(run.parsed) THEN [run EXCEPT !.pc = "write"]
  ELSE LET p == findBookByTitle(run.currentBooks, run.parsed[run.k].title)
       IN  IF p = 0 THEN [run EXCEPT !.pc = "await"]
           ELSE the({importLoop(next) : next \in {importBook(run, p)}})

\* `${iBook.title} ${iBook.author}`
lookupQuery(iBook) == iBook.title \o <<" ">> \o iBook.author

\* a variant whose placeholder takes the parser's default author
metaOrUnknownAuthor(meta, iBook, uuid) ==
  IF meta # null THEN meta[1]
  ELSE [id |-> uuid, title |-> iBook.title, author |-> UnknownAuthor,
        coverUrl |-> placeholderCover(iBook.title), totalHighlights |-> 0]

\* meta || { id: crypto.randomUUID(), title: iBook.title, author: iBook.author, coverUrl: ..., totalHighlights: 0 }
metaOrPlaceholder(meta, iBook, uuid) ==
  IF meta # null THEN meta[1]
  ELSE [id |-> uuid, title |-> iBook.title, author |-> iBook.author,
        coverUrl |-> placeholderCover(iBook.title), totalHighlights |-> 0]

\* a variant that pushes bookObj to the end of currentBooks
resumeImportPush(task, response, uuid, now) ==
  LET iBook   == task.parsed[task.k]
      meta    == searchForBook(task.query, response, uuid)
      bookObj == metaOrPlaceholder(meta, iBook, uuid)
      run     == [task EXCEPT !.currentBooks = @ \o <<bookObj>>,
                              !.uuid = uuid + 1, !.now = now,
                              !.lookups = Append(@, [k |-> task.k, query |-> task.query,
                                                     response |-> response, meta |-> meta])]
  IN  the({importLoop(next) :
             next \in {importBook(with, Len(with.currentBooks)) : with \in {run}}})

\* a variant that asks for the same book again instead of going on
resumeImportAskAgain(task, response, uuid, now) == [task EXCEPT !.pc = "await"]

\* a variant that puts bookObj behind the first Book of currentBooks
resumeImportBehindFirst(task, response, uuid, now) ==
  LET iBook   == task.parsed[task.k]
      meta    == searchForBook(task.query, response, uuid)
      bookObj == metaOrPlaceholder(meta, iBook, uuid)
      run     == [task EXCEPT !.currentBooks = IF @ = <<>> THEN <<bookObj>>
                                               ELSE <<Head(@), bookObj>> \o Tail(@),
                              !.uuid = uuid + 1, !.now = now,
                              !.lookups = Append(@, [k |-> task.k, query |-> task.query,
                                                     response |-> response, meta |-> meta])]
  IN  the({importLoop(next) : next \in {importBook(with, 1) : with \in {run}}})

\* the call resumed with what fetch returned: bookObj is made, unshifted, and the loop goes on
resumeImport(task, response, uuid, now) ==
  LET iBook   == task.parsed[task.k]
      meta    == searchForBook(task.query, response, uuid)
      bookObj == metaOrPlaceholder(meta, iBook, uuid)
      run     == [task EXCEPT !.currentBooks = <<bookObj>> \o @,
                              !.uuid = uuid + 1, !.now = now,
                              !.lookups = Append(@, [k |-> task.k, query |-> task.query,
                                                     response |-> response, meta |-> meta])]
  IN  the({importLoop(next) : next \in {importBook(with, 1) : with \in {run}}})

\* the call from its first line to its first await or to the end of its loop
startImport(textIndex, parsed, storedBooks, storedHighlights, uuid, now) ==
  importLoop([text |-> textIndex, parsed |-> parsed, k |-> 1,
              currentBooks |-> storedBooks, allHighlights |-> storedHighlights,
              addedCount |-> 0, updates |-> <<>>, query |-> <<>>, orphan |-> FALSE,
              readBooks |-> storedBooks, readHighlights |-> storedHighlights,
              lookups |-> <<>>, targets |-> <<>>, marks |-> <<>>, repeat |-> FALSE,
              uuid |-> uuid, now |-> now, pc |-> "start"])

\* the ImportSummary passed to setImportSummary
summaryOf(run) ==
  [totalBooksProcessed |-> Len(run.parsed), totalHighlightsAdded |-> run.addedCount,
   updates |-> run.updates]

\* the identifiers an import of parsed may draw: one per book and one per highlight
RECURSIVE idsNeeded(_)
idsNeeded(parsed) ==
  IF parsed = <<>> THEN 0 ELSE 1 + Len(Head(parsed).highlights) + idsNeeded(Tail(parsed))

\* history: run repeats the import that returned before it
repeats(run, before) ==
  /\ before # <<>>
  /\ before[1].text = run.text
  /\ before[1].currentBooks = run.readBooks
  /\ before[1].allHighlights = run.readHighlights

\* a variant that is cut off after saveBooks(currentBooks)
FinishImportBooksOnly(run, others) ==
  /\ lsBooks' = run.currentBooks
  /\ lsHighlights' = lsHighlights
  /\ nextId' = run.uuid
  /\ clock' = IF run.uuid > nextId THEN clock + 1 ELSE clock
  /\ imports' = others
  /\ completed' = <<[run EXCEPT !.repeat = repeats(run, completed)]>>
  /\ UNCHANGED <<route, alert, libraryVars, adds, detailVars>>

\* lines 672-680 and the rest of ImportModal.handleSubmit: the store is written; the state
\* setters act on the Library and ImportModal that made the call, if still mounted
FinishImport(run, others) ==
  /\ lsBooks' = run.currentBooks
  /\ lsHighlights' = run.allHighlights
  /\ nextId' = run.uuid
  /\ clock' = IF run.uuid > nextId THEN clock + 1 ELSE clock
  /\ imports' = others
  /\ completed' = <<[run EXCEPT !.repeat = repeats(run, completed)]>>
  /\ IF run.orphan
       THEN UNCHANGED libraryVars
       ELSE /\ books' = run.currentBooks
            /\ importSummary' = <<summaryOf(run)>>
            /\ text' = 0
            /\ isImportModalOpen' = FALSE
            /\ loading' = FALSE
            /\ UNCHANGED isAdding
  /\ UNCHANGED <<route, alert, adds, detailVars>>

\* the call stops at await searchForBook(`${iBook.title} ${iBook.author}`)
SuspendImport(run, others) ==
  /\ imports' = Append(others, [run EXCEPT !.query = lookupQuery(run.parsed[run.k])])
  /\ nextId' = run.uuid
  /\ clock' = IF run.uuid > nextId THEN clock + 1 ELSE clock
  /\ UNCHANGED <<storeVars, completed>>

\* the import trigger: the Sync Highlights button is rendered and not disabled
CanSubmit ==
  /\ route = "LIBRARY"
  /\ alert = NoAlert
  /\ isImportModalOpen
  /\ ~loading
  /\ text # 0
  /\ trim(ImportTexts[text].raw) # <<>>

\* a variant that never finds the parsed list empty
nothingToImportNever(parsed) == FALSE

\* importedBooksData.length === 0
nothingToImport(parsed) == Len(parsed) = 0

\* ImportModal.handleSubmit, up to the first await that does not return at once
HandleSubmit(cap) ==
  /\ CanSubmit
  /\ \E parsed \in {parseImportText(ImportTexts[text], clock)} :
       IF nothingToImport(parsed)
         THEN \* throw new Error(...); catch (e) { alert(e.message) }
              /\ alert' = NoHighlightsMessage
              /\ loading' = TRUE
              /\ UNCHANGED <<storeVars, nextId, clock, route, books, isImportModalOpen,
                             importSummary, isAdding, text, imports, adds, detailVars,
                             completed>>
         ELSE /\ nextId + idsNeeded(parsed) <= cap + 1
              /\ Len(imports) < MaxInFlight
              /\ \E run \in {startImport(text, parsed, lsBooks, lsHighlights, nextId, clock)} :
                   IF run.pc = "await"
                     THEN /\ SuspendImport(run, imports)
                          /\ loading' = TRUE
                          /\ UNCHANGED <<route, alert, books, isImportModalOpen, importSummary,
                                         isAdding, text, adds, detailVars>>
                     ELSE FinishImport(run, imports)
  /\ UNCHANGED <<parserVars, cameraVars>>

\* the others of a sequence of calls when call j leaves it
without(calls, j) == SubSeq(calls, 1, j - 1) \o SubSeq(calls, j + 1, Len(calls))

\* a suspended handleBulkImport resumes when its searchForBook returns
LookupReturn(j, response) ==
  /\ alert = NoAlert
  /\ j \in 1..Len(imports)
  /\ \E run \in {resumeImport(imports[j], response, nextId, clock)} :
       IF run.pc = "await"
         THEN /\ SuspendImport(run, without(imports, j))
              /\ UNCHANGED <<route, alert, libraryVars, adds, detailVars>>
         ELSE FinishImport(run, without(imports, j))
  /\ UNCHANGED <<parserVars, cameraVars>>

\* the user presses OK on the alert() dialog; handleSubmit goes on to finally { setLoading(false) }
DismissAlert ==
  /\ alert # NoAlert
  /\ alert' = NoAlert
  /\ loading' = IF alert = NoHighlightsMessage THEN FALSE ELSE loading
  /\ UNCHANGED <<storeVars, nextId, clock, route, books, isImportModalOpen, importSummary,
                 isAdding, text, imports, adds, detailVars, completed>>
  /\ UNCHANGED <<parserVars, cameraVars>>

\* the Bulk Sync button: setIsImportModalOpen(true)
OpenImportModal ==
  /\ route = "LIBRARY"
  /\ alert = NoAlert
  /\ ~isImportModalOpen
  /\ importSummary = null
  /\ isImportModalOpen' = TRUE
  /\ UNCHANGED <<storeVars, nextId, clock, route, alert, books, importSummary, isAdding, text,
                 loading, imports, adds, detailVars, completed>>
  /\ UNCHANGED <<parserVars, cameraVars>>

\* the dialog's X and Cancel buttons: onClose
CloseImportModal ==
  /\ route = "LIBRARY"
  /\ alert = NoAlert
  /\ isImportModalOpen
  /\ isImportModalOpen' = FALSE
  /\ UNCHANGED <<storeVars, nextId, clock, route, alert, books, importSummary, isAdding, text,
                 loading, imports, adds, detailVars, completed>>
  /\ UNCHANGED <<parserVars, cameraVars>>

\* handleFileUpload: reader.onload sets text to the file's content
SetText(i) ==
  /\ route = "LIBRARY"
  /\ alert = NoAlert
  /\ isImportModalOpen
  /\ i \in 1..Len(ImportTexts)
  /\ text' = i
  /\ UNCHANGED <<storeVars, nextId, clock, route, alert, books, isImportModalOpen,
                 importSummary, isAdding, loading, imports, adds, detailVars, completed>>
  /\ UNCHANGED <<parserVars, cameraVars>>

\* ImportSummaryModal's onClose: setImportSummary(null)
CloseSummary ==
  /\ route = "LIBRARY"
  /\ alert = NoAlert
  /\ importSummary # null
  /\ importSummary' = null
  /\ UNCHANGED <<storeVars, nextId, clock, route, alert, books, isImportModalOpen, isAdding,
                 text, loading, imports, adds, detailVars, completed>>
  /\ UNCHANGED <<parserVars, cameraVars>>

(***************************************************************************)
(* App.tsx: Library.handleAddBook and the router                           *)
(***************************************************************************)

\* what the user types into the Add Book field
AddBookQueries == {sDune}

\* handleAddBook, up to await searchForBook(addBookQuery); the closure keeps this render's books
HandleAddBook(query, cap) ==
  /\ route = "LIBRARY"
  /\ alert = NoAlert
  /\ ~isImportModalOpen
  /\ importSummary = null
  /\ ~isAdding
  /\ trim(query) # <<>>
  /\ nextId + 1 <= cap + 1
  /\ Len(adds) < MaxInFlight
  /\ isAdding' = TRUE
  /\ adds' = Append(adds, [query |-> query, books |-> books, orphan |-> FALSE])
  /\ UNCHANGED <<storeVars, nextId, clock, route, alert, books, isImportModalOpen,
                 importSummary, text, loading, imports, detailVars, completed>>
  /\ UNCHANGED <<parserVars, cameraVars>>

\* a suspended handleAddBook resumes when its searchForBook returns
AddBookReturn(j, response) ==
  /\ alert = NoAlert
  /\ j \in 1..Len(adds)
  /\ LET task         == adds[j]
         newBook      == searchForBook(task.query, response, nextId)
         updatedBooks == newBook \o task.books
     IN  /\ adds' = without(adds, j)
         /\ isAdding' = IF task.orphan THEN isAdding ELSE FALSE
         /\ IF newBook # null
              THEN /\ books' = IF task.orphan THEN books ELSE updatedBooks
                   /\ lsBooks' = updatedBooks
                   /\ nextId' = nextId + 1
                   /\ UNCHANGED alert
              ELSE /\ alert' = BookNotFoundMessage
                   /\ UNCHANGED <<books, lsBooks, nextId>>
  /\ UNCHANGED <<lsHighlights, clock, route, isImportModalOpen, importSummary, text, loading,
                 imports, detailVars, completed>>
  /\ UNCHANGED <<parserVars, cameraVars>>

\* a component that unmounts leaves its suspended calls running; their state setters do nothing
orphaned(calls) == [j \in 1..Len(calls) |-> [calls[j] EXCEPT !.orphan = TRUE]]

\* the highlight that belongs before h in the order of getStoredHighlights' comparator
newerThan(a, h) == a.createdAt >= h.createdAt

\* Array.prototype.sort with (a, b) => new Date(b.createdAt) - new Date(a.createdAt): newest
\* first, and stable
RECURSIVE sortNewestFirst(_)
sortNewestFirst(hs) ==
  IF hs = <<>> THEN <<>>
  ELSE LET rest   == sortNewestFirst(SubSeq(hs, 1, Len(hs) - 1))
           last   == hs[Len(hs)]
           before == SelectSeq(rest, LAMBDA a : newerThan(a, last))
           after  == SelectSeq(rest, LAMBDA a : ~newerThan(a, last))
       IN  before \o <<last>> \o after

\* getStoredHighlights(bookId)
getStoredHighlights(stored, bookId) ==
  sortNewestFirst(SelectSeq(stored, LAMBDA h : h.bookId = bookId))

\* Array.prototype.findIndex(b => b.id === id), 1-based, 0 for -1
findIndexById(items, id) ==
  LET hits == {i \in 1..Len(items) : items[i].id = id}
  IN  IF hits = {} THEN 0 ELSE Min(hits)

\* <Library /> mounts: every useState starts over and the effect reads the books stored by then
MountLibrary(stored) ==
  /\ route' = "LIBRARY"
  /\ books' = stored
  /\ isImportModalOpen' = FALSE
  /\ importSummary' = null
  /\ isAdding' = FALSE
  /\ text' = 0
  /\ loading' = FALSE
  /\ book' = null
  /\ highlights' = <<>>
  /\ selectedHighlight' = null
  /\ imports' = orphaned(imports)
  /\ adds' = orphaned(adds)

\* a click on a book of the rendered collection: navigate(`/book/${book.id}`); BookDetail's
\* effect loads the book, or navigates back to '/' when the store has no such book
OpenBook(i) ==
  /\ route = "LIBRARY"
  /\ alert = NoAlert
  /\ ~isImportModalOpen
  /\ importSummary = null
  /\ i \in 1..Len(books)
  /\ LET id == books[i].id
         at == findIndexById(lsBooks, id)
     IN  IF at # 0
           THEN /\ route' = "BOOK_DETAILS"
                /\ book' = <<lsBooks[at]>>
                /\ highlights' = getStoredHighlights(lsHighlights, id)
                /\ selectedHighlight' = null
                /\ books' = <<>>
                /\ isImportModalOpen' = FALSE
                /\ importSummary' = null
                /\ isAdding' = FALSE
                /\ text' = 0
                /\ loading' = FALSE
                /\ imports' = orphaned(imports)
                /\ adds' = orphaned(adds)
           ELSE MountLibrary(lsBooks)
  /\ UNCHANGED <<storeVars, nextId, clock, alert, completed>>
  /\ UNCHANGED <<parserVars, cameraVars>>

\* BookDetail's back button: navigate('/')
BackToLibrary ==
  /\ route = "BOOK_DETAILS"
  /\ alert = NoAlert
  /\ MountLibrary(lsBooks)
  /\ UNCHANGED <<storeVars, nextId, clock, alert, completed>>
  /\ UNCHANGED <<parserVars, cameraVars>>

(***************************************************************************)
(* App.tsx: BookDetail                                                     *)
(***************************************************************************)

\* what the user may enter in the New Highlight form: draftText, draftPage, draftNote
Drafts ==
  { [text |-> sFear, page |-> <<>>, note |-> <<>>],
    [text |-> sFear, page |-> sSeven, note |-> sNote] }

\* what the user may enter in the Book Settings form
Edits == { [title |-> sEmma, author |-> sJaneAusten] }

\* what the user may enter as a thought
ThoughtTexts == {sNote}

\* parseInt(String(draftPage)) || undefined
draftPageNumber(draftPage) ==
  IF draftPage = <<>> \/ parseInt(draftPage) = 0 THEN NoPage ELSE parseInt(draftPage)

\* draftNote ? [{ id: crypto.randomUUID(), text: draftNote, createdAt: ... }] : []
draftThoughts(draftNote, uuid, now) ==
  IF draftNote # <<>> THEN <<[id |-> uuid, text |-> draftNote, createdAt |-> now]>> ELSE <<>>

\* the Highlight saveNewHighlight builds
scannedHighlight(draft, bookId, uuid, now) ==
  [id |-> uuid, bookId |-> bookId, text |-> draft.text,
   pageNumber |-> draftPageNumber(draft.page),
   thoughts |-> draftThoughts(draft.note, uuid + 1, now),
   createdAt |-> now, source |-> "scanned"]

\* allB[bIndex].totalHighlights++ of saveNewHighlight
countedBooks(allB, bIndex) == [allB EXCEPT ![bIndex].totalHighlights = @ + 1]

\* saveNewHighlight
SaveNewHighlight(draft, cap) ==
  /\ route = "BOOK_DETAILS"
  /\ alert = NoAlert
  /\ selectedHighlight = null
  /\ book # null
  /\ trim(draft.text) # <<>>
  /\ nextId + (IF draft.note # <<>> THEN 2 ELSE 1) <= cap + 1
  /\ LET newH   == scannedHighlight(draft, book[1].id, nextId, clock)
         bIndex == findIndexById(lsBooks, book[1].id)
     IN  /\ lsHighlights' = Append(lsHighlights, newH)
         /\ highlights' = <<newH>> \o highlights
         /\ IF bIndex # 0
              THEN /\ lsBooks' = countedBooks(lsBooks, bIndex)
                   /\ book' = <<countedBooks(lsBooks, bIndex)[bIndex]>>
              ELSE UNCHANGED <<lsBooks, book>>
         /\ nextId' = nextId + (IF draft.note # <<>> THEN 2 ELSE 1)
         /\ clock' = clock + 1
  /\ UNCHANGED <<route, alert, libraryVars, imports, adds, selectedHighlight, completed>>
  /\ UNCHANGED <<parserVars, cameraVars>>

\* updateBookDetails(title, author)
UpdateBookDetails(edit) ==
  /\ route = "BOOK_DETAILS"
  /\ alert = NoAlert
  /\ selectedHighlight = null
  /\ book # null
  /\ LET bIndex == findIndexById(lsBooks, book[1].id)
         allB   == [lsBooks EXCEPT ![bIndex].title = edit.title, ![bIndex].author = edit.author]
     IN  IF bIndex # 0
           THEN /\ lsBooks' = allB
                /\ book' = <<allB[bIndex]>>
           ELSE UNCHANGED <<lsBooks, book>>
  /\ UNCHANGED <<lsHighlights, nextId, clock, route, alert, libraryVars, imports, adds,
                 highlights, selectedHighlight, completed>>
  /\ UNCHANGED <<parserVars, cameraVars>>

\* getStoredBooks().filter(b => b.id !== book.id)
booksWithout(allB, id) == SelectSeq(allB, LAMBDA b : b.id # id)

\* a variant that leaves the stored highlights as they are
highlightsKept(allH, id) == allH

\* JSON.parse(...).filter((h: any) => h.bookId !== book.id)
highlightsWithout(allH, id) == SelectSeq(allH, LAMBDA h : h.bookId # id)

\* deleteBook, the user answering OK to confirm(); it ends with navigate('/')
DeleteBook ==
  /\ route = "BOOK_DETAILS"
  /\ alert = NoAlert
  /\ selectedHighlight = null
  /\ book # null
  /\ lsBooks' = booksWithout(lsBooks, book[1].id)
  /\ lsHighlights' = highlightsWithout(lsHighlights, book[1].id)
  /\ MountLibrary(lsBooks')
  /\ UNCHANGED <<nextId, clock, alert, completed>>
  /\ UNCHANGED <<parserVars, cameraVars>>

\* a click on a highlight of the rendered list: setSelectedHighlight(h)
SelectHighlight(i) ==
  /\ route = "BOOK_DETAILS"
  /\ alert = NoAlert
  /\ selectedHighlight = null
  /\ i \in 1..Len(highlights)
  /\ selectedHighlight' = <<highlights[i]>>
  /\ UNCHANGED <<storeVars, nextId, clock, route, alert, libraryVars, imports, adds, book,
                 highlights, completed>>
  /\ UNCHANGED <<parserVars, cameraVars>>

\* HighlightThreadView's onClose: setSelectedHighlight(null)
CloseThread ==
  /\ route = "BOOK_DETAILS"
  /\ alert = NoAlert
  /\ selectedHighlight # null
  /\ selectedHighlight' = null
  /\ UNCHANGED <<storeVars, nextId, clock, route, alert, libraryVars, imports, adds, book,
                 highlights, completed>>
  /\ UNCHANGED <<parserVars, cameraVars>>

\* updateStoredHighlight(updatedHighlight)
updateStoredHighlight(allHighlights, updatedHighlight) ==
  LET index == findIndexById(allHighlights, updatedHighlight.id)
  IN  IF index # 0 THEN [allHighlights EXCEPT ![index] = updatedHighlight] ELSE allHighlights

\* deleteStoredHighlight(highlightId)
deleteStoredHighlight(allHighlights, highlightId) ==
  SelectSeq(allHighlights, LAMBDA h : h.id # highlightId)

\* hls.map(h => h.id === uH.id ? uH : h)
replaceById(hls, uH) == [i \in 1..Len(hls) |-> IF hls[i].id = uH.id THEN uH ELSE hls[i]]

\* BookDetail's onAddThought(t), called by the Send button when newThought.trim() is not empty
AddThought(t, cap) ==
  /\ route = "BOOK_DETAILS"
  /\ alert = NoAlert
  /\ selectedHighlight # null
  /\ trim(t) # <<>>
  /\ nextId + 1 <= cap + 1
  /\ LET nT == [id |-> nextId, text |-> t, createdAt |-> clock]
         uH == [selectedHighlight[1] EXCEPT !.thoughts = Append(@, nT)]
     IN  /\ selectedHighlight' = <<uH>>
         /\ lsHighlights' = updateStoredHighlight(lsHighlights, uH)
         /\ highlights' = replaceById(highlights, uH)
  /\ nextId' = nextId + 1
  /\ clock' = clock + 1
  /\ UNCHANGED <<lsBooks, route, alert, libraryVars, imports, adds, book, completed>>
  /\ UNCHANGED <<parserVars, cameraVars>>

\* BookDetail's onDelete, the user answering OK to confirm("Remove highlight?")
DeleteHighlight ==
  /\ route = "BOOK_DETAILS"
  /\ alert = NoAlert
  /\ selectedHighlight # null
  /\ lsHighlights' = deleteStoredHighlight(lsHighlights, selectedHighlight[1].id)
  /\ highlights' = SelectSeq(highlights, LAMBDA h : h.id # selectedHighlight[1].id)
  /\ selectedHighlight' = null
  /\ UNCHANGED <<lsBooks, nextId, clock, route, alert, libraryVars, imports, adds, book,
                 completed>>
  /\ UNCHANGED <<parserVars, cameraVars>>

(***************************************************************************)
(* Specifications                                                          *)
(***************************************************************************)

\* the import texts the user loads where every operation is modelled
SomeTexts == {2, 4}

\* what the user may do
UserNext ==
  \/ OpenImportModal
  \/ CloseImportModal
  \/ \E i \in SomeTexts : SetText(i)
  \/ HandleSubmit(MaxIds)
  \/ CloseSummary
  \/ \E query \in AddBookQueries : HandleAddBook(query, MaxIds)
  \/ \E i \in 1..MaxIds : OpenBook(i)
  \/ BackToLibrary
  \/ \E draft \in Drafts : SaveNewHighlight(draft, MaxIds)
  \/ \E edit \in Edits : UpdateBookDetails(edit)
  \/ DeleteBook
  \/ \E i \in 1..MaxIds : SelectHighlight(i)
  \/ CloseThread
  \/ \E t \in ThoughtTexts : AddThought(t, MaxIds)
  \/ DeleteHighlight

\* what happens without the user: a fetch returns; and the OK of an alert(), which blocks
\* everything else
SystemNext ==
  \/ \E j \in 1..MaxInFlight, response \in Responses : LookupReturn(j, response)
  \/ \E j \in 1..MaxInFlight, response \in Responses : AddBookReturn(j, response)
  \/ DismissAlert

Next == UserNext \/ SystemNext

\* the application: the user may act while lookups are in flight
Spec == Init /\ [][Next]_vars

\* no call of handleBulkImport or handleAddBook is waiting for its fetch
Idle == imports = <<>> /\ adds = <<>>

\* the user waits for each operation to finish before starting the next
SeqNext ==
  \/ Idle /\ OpenImportModal
  \/ Idle /\ CloseImportModal
  \/ Idle /\ \E i \in SomeTexts : SetText(i)
  \/ Idle /\ HandleSubmit(MaxSeqIds)
  \/ Idle /\ CloseSummary
  \/ Idle /\ \E query \in AddBookQueries : HandleAddBook(query, MaxSeqIds)
  \/ Idle /\ \E i \in 1..MaxSeqIds : OpenBook(i)
  \/ Idle /\ BackToLibrary
  \/ Idle /\ \E draft \in Drafts : SaveNewHighlight(draft, MaxSeqIds)
  \/ Idle /\ \E edit \in Edits : UpdateBookDetails(edit)
  \/ Idle /\ DeleteBook
  \/ Idle /\ \E i \in 1..MaxSeqIds : SelectHighlight(i)
  \/ Idle /\ CloseThread
  \/ Idle /\ \E t \in ThoughtTexts : AddThought(t, MaxSeqIds)
  \/ Idle /\ DeleteHighlight
  \/ SystemNext

\* the application used one operation at a time
SeqSpec == Init /\ [][SeqNext]_vars

(***************************************************************************)
(* The import pipeline alone: the user only imports, into a library that   *)
(* earlier operations have left.                                           *)
(***************************************************************************)

\* a Dune added by handleAddBook, with a highlight and a thought saved by saveNewHighlight
scannedLibrary ==
  [books |-> << [id |-> 1, title |-> sDune, author |-> sFrankHerbert,
                 coverUrl |-> <<"books.google.com">>, totalHighlights |-> 1] >>,
   highlights |-> << [id |-> 2, bookId |-> 1, text |-> sFear, pageNumber |-> 7,
                      thoughts |-> <<[id |-> 3, text |-> sNote, createdAt |-> 1]>>,
                      createdAt |-> 1, source |-> "scanned"] >>,
   nextId |-> 4, clock |-> 2]

\* two books named Dune, added by two calls of handleAddBook
twinLibrary ==
  [books |-> << [id |-> 2, title |-> sDune, author |-> sFrankHerbert,
                 coverUrl |-> <<"books.google.com">>, totalHighlights |-> 0],
                [id |-> 1, title |-> sDune, author |-> sFrankHerbert,
                 coverUrl |-> <<"books.google.com">>, totalHighlights |-> 0] >>,
   highlights |-> <<>>, nextId |-> 3, clock |-> 1]

\* the library of a new installation
emptyLibrary == [books |-> <<>>, highlights |-> <<>>, nextId |-> 1, clock |-> 1]

Libraries == {emptyLibrary, scannedLibrary, twinLibrary}

\* <Library /> has mounted on one of the libraries
ImportInit ==
  \E lib \in Libraries :
    /\ lsBooks = lib.books
    /\ lsHighlights = lib.highlights
    /\ nextId = lib.nextId
    /\ clock = lib.clock
    /\ route = "LIBRARY"
    /\ alert = NoAlert
    /\ books = lib.books
    /\ isImportModalOpen = FALSE
    /\ importSummary = null
    /\ isAdding = FALSE
    /\ text = 0
    /\ loading = FALSE
    /\ imports = <<>>
    /\ adds = <<>>
    /\ book = null
    /\ highlights = <<>>
    /\ selectedHighlight = null
    /\ completed = <<>>
    /\ importText = null
    /\ importedBooksData = null
    /\ CameraInit

\* the texts loaded into the libraries above
LibraryTexts == 1..6

ImportNext ==
  \/ OpenImportModal
  \/ CloseImportModal
  \/ \E i \in LibraryTexts : SetText(i)
  \/ HandleSubmit(MaxImportIds)
  \/ \E j \in 1..MaxInFlight, response \in Responses : LookupReturn(j, response)
  \/ DismissAlert
  \/ CloseSummary

ImportSpec == ImportInit /\ [][ImportNext]_vars

\* every fetch returns: searchForBook's request succeeds, fails or is answered in the end
LiveImportSpec ==
  ImportSpec /\ WF_vars(\E j \in 1..MaxInFlight, response \in Responses : LookupReturn(j, response))

\* identifiers the application may draw while an import into scannedLibrary is under way
MaxRaceIds == 6

\* the HTML export of Emma, a book scannedLibrary does not hold
RaceTexts == {6}

\* <Library /> has mounted on scannedLibrary
RaceInit == ImportInit /\ lsBooks = scannedLibrary.books

\* the application, the user acting while the lookups of an import and of handleAddBook
\* are in flight
RaceNext ==
  \/ OpenImportModal
  \/ CloseImportModal
  \/ \E i \in RaceTexts : SetText(i)
  \/ HandleSubmit(MaxRaceIds)
  \/ CloseSummary
  \/ \E query \in AddBookQueries : HandleAddBook(query, MaxRaceIds)
  \/ \E i \in 1..MaxRaceIds : OpenBook(i)
  \/ BackToLibrary
  \/ \E draft \in Drafts : SaveNewHighlight(draft, MaxRaceIds)
  \/ DeleteBook
  \/ \E i \in 1..MaxRaceIds : SelectHighlight(i)
  \/ CloseThread
  \/ \E t \in ThoughtTexts : AddThought(t, MaxRaceIds)
  \/ DeleteHighlight
  \/ \E j \in 1..MaxInFlight, response \in Responses : LookupReturn(j, response)
  \/ \E j \in 1..MaxInFlight, response \in Responses : AddBookReturn(j, response)
  \/ DismissAlert

RaceSpec == RaceInit /\ [][RaceNext]_vars

\* the Moby Dick clippings and a text with nothing to import
MobyDickTexts == {4, 7}

\* <Library /> has mounted on the library of a new installation
MobyDickInit == ImportInit /\ lsBooks = emptyLibrary.books

MobyDickNext ==
  \/ OpenImportModal
  \/ CloseImportModal
  \/ \E i \in MobyDickTexts : SetText(i)
  \/ HandleSubmit(MaxImportIds)
  \/ \E j \in 1..MaxInFlight, response \in Responses : LookupReturn(j, response)
  \/ DismissAlert
  \/ CloseSummary

MobyDickSpec == MobyDickInit /\ [][MobyDickNext]_vars

(***************************************************************************)
(* services/ebookImportService.ts called on its own.  A text is a record   *)
(* [raw, doc, entries]: raw and doc as above, and entries the clippings    *)
(* entries raw was written from (empty for a text that is no clippings     *)
(* file), each a record [titleLine, metaLine, body] with body the lines    *)
(* after the meta line.                                                    *)
(***************************************************************************)

\* a text that was not written from clippings entries
notClippings(raw, doc) == [raw |-> raw, doc |-> doc, entries |-> <<>>]

\* the texts of the dispatch: clippings and an HTML export, with and without what
\* parseImportText looks for around them
DispatchTexts ==
  LET sNotes      == <<"N","o","t","e","s"," ">>
      sParagraph  == <<"<","p",">">>
      sUpperHtml  == <<"<","H","T","M","L",">">>
      sNineEquals == <<"=","=","=","=","=","=","=","=","=">>
      sBlank      == <<" ","\r","\n","\t">>
  IN
      { notClippings(entry(entryDuneFearPage9), emptyDoc),
        notClippings(sParagraph \o entry(entryDuneFearPage9), htmlDoc),
        notClippings(sNotes \o HtmlMarker \o entry(entryDuneFearPage9), htmlDoc),
        notClippings(sNotes \o DoctypeMarker \o entry(entryDuneFearPage9), htmlDoc),
        notClippings(rawHtml, htmlDoc),
        notClippings(sBlank \o rawHtml \o sBlank, htmlDoc),
        notClippings(sNotes \o DoctypeMarker \o rawHtml, htmlDoc),
        notClippings(sNotes \o HtmlMarker \o rawHtml, htmlDoc),
        notClippings(sNotes \o rawHtml, htmlDoc),
        notClippings(sNotes \o sUpperHtml \o rawHtml, htmlDoc),
        notClippings(entryDuneFearPage9 \o sNineEquals, emptyDoc),
        notClippings(sNotes \o sNineEquals \o rawHtml, htmlDoc),
        notClippings(rawPlain, emptyDoc),
        notClippings(sBlank, emptyDoc),
        notClippings(<<>>, emptyDoc) }

\* first lines of a clippings entry
TitleLines ==
  { <<"D","u","n","e"," ","(","H","e","r","b","e","r","t",","," ","F","r","a","n","k",")">>,
    <<"D","u","n","e"," ","(","F","r","a","n","k"," ","H","e","r","b","e","r","t",")">>,
    <<"D","u","n","e">>,
    <<"(","D","u","n","e",")">>,
    <<"D","u","n","e"," ","(","H","e","r","b","e","r","t",","," ","F","r","a","n","k",","," ",
      "J","r",".",")">>,
    <<"D","u","n","e"," ","(","P","a","r","t"," ","1",")"," ","(","H","e","r","b","e","r","t",
      ",","F","r","a","n","k",")">>,
    <<" ","D","u","n","e"," "," ","("," ","H","e","r","b","e","r","t"," ",","," ","F","r","a",
      "n","k"," ",")"," ">>,
    <<"D","u","n","e"," ","(","H","e","r","b","e","r","t",","," ","F","r","a","n","k">>,
    <<"D","u","n","e"," ","(",",",")">>,
    <<"D","u","n","e"," ","(">> }

\* second lines of a clippings entry
MetaLines ==
  { <<"-"," ","Y","o","u","r"," ","H","i","g","h","l","i","g","h","t"," ","o","n"," ","p","a",
      "g","e"," ","1","0"," ","|"," ","L","o","c","a","t","i","o","n"," ","1","5","0","-","1",
      "5","1">>,
    <<"-"," ","Y","o","u","r"," ","H","i","g","h","l","i","g","h","t"," ","a","t"," ","L","o",
      "c","a","t","i","o","n"," ","7">>,
    <<"-"," ","Y","o","u","r"," ","H","i","g","h","l","i","g","h","t"," ","o","n"," ","P","a",
      "g","e"," ","9">>,
    <<"-"," ","P","A","G","E"," ","3"," ","p","a","g","e"," ","4">>,
    <<"-"," ","Y","o","u","r"," ","N","o","t","e"," ","o","n"," ","p","a","g","e","1","2">>,
    <<"-"," ","Y","o","u","r"," ","N","o","t","e"," ","o","n"," ","p","a","g","e"," "," ","1",
      "2">>,
    <<"-"," ","p","a","g","e","s"," ","5">>,
    <<"-"," ","p","a","g","e"," ","x",","," ","p","a","g","e"," ","7">> }

\* the lines after the second line of a clippings entry
Bodies ==
  { <<<<>>, <<"f","e","a","r">>>>,
    <<<<"f","e","a","r">>>>,
    <<>>,
    <<<<>>, <<" ">>>>,
    <<<<>>, <<"B","o","o","k","m","a","r","k"," ","t","h","i","s">>>>,
    <<<<>>, <<"B","O","O","K","M","A","R","K","S">>>>,
    <<<<>>, <<"f","e","a","r">>, <<>>, <<"s","a","n","d">>>>,
    <<<<>>, <<" "," ">>, <<" ","f","e","a","r"," "," ">>>>,
    <<<<>>, <<"m","y"," ","b","o","o","k","m","a","r","k">>>> }

\* first lines of entries of one file: books that differ in letter case, in author, in title
GroupTitleLines ==
  { <<"D","u","n","e"," ","(","H","e","r","b","e","r","t",")">>,
    <<"D","U","N","E"," ","(","h","e","r","b","e","r","t",")">>,
    <<"D","u","n","e"," ","(","A","n","d","e","r","s","o","n",")">>,
    <<"E","m","m","a"," ","(","H","e","r","b","e","r","t",")">>,
    <<"a","-","b"," ","(","c",")">>,
    <<"a"," ","(","b","-","c",")">> }

\* the most entries of a file
MaxEntries == 3

\* My Clippings.txt as the Kindle writes it: each entry's lines and the separator line
RECURSIVE clippingsOf(_)
clippingsOf(entries) ==
  IF entries = <<>> THEN <<>>
  ELSE LET sCrLf == <<"\r", "\n">>
       IN  join(Head(entries), sCrLf) \o sCrLf \o Separator \o sCrLf
             \o clippingsOf(Tail(entries))

\* the document of an export with one blockquote whose text is t
quoteDoc(t) == [titleText |-> undefined, authorText |-> undefined, noteTexts |-> <<>>,
                elements |-> <<[childText |-> undefined, textContent |-> t]>>]

\* files of one entry, and the export that quotes the entry's second line
EntryTexts ==
  { [raw |-> clippingsOf(<<lines>>), doc |-> quoteDoc(lines[2]), entries |-> <<lines>>] :
      lines \in {<<t, m>> \o b : t \in TitleLines, m \in MetaLines, b \in Bodies} }
    \cup { [raw |-> clippingsOf(<<<<t>>>>), doc |-> emptyDoc, entries |-> <<<<t>>>>] :
             t \in TitleLines }

\* a highlight or a bookmark of the book of title line t, as entry number i of a file;
\* the highlight's text is i letters long
groupEntry(t, i, kept) ==
  <<t, <<"-"," ","Y","o","u","r"," ","H","i","g","h","l","i","g","h","t"," ","o","n"," ","p","a","g","e"," ","4">>, <<>>>> \o (IF kept THEN <<[k \in 1..i |-> "x"]>> ELSE <<>>)

\* the files of n entries
GroupFiles(n) ==
  { [i \in 1..n |-> groupEntry(f[i][1], i, f[i][2])] :
      f \in [1..n -> (GroupTitleLines \X {TRUE}) \cup {<<<<"D","u","n","e"," ","(","H","e","r","b","e","r","t",")">>, FALSE>>}] }

\* files of two entries and more
GroupTexts ==
  { [raw |-> clippingsOf(entries), doc |-> emptyDoc, entries |-> entries] :
      entries \in UNION {GroupFiles(n) : n \in 2..MaxEntries} }

\* the most '.noteText' elements, and the most elements of the broader selector, of a document
MaxElements == 2

\* textContent of a '.noteText' element
NoteTexts == { <<>>, <<" "," ">>, <<" ","n","o","t","e","d"," ","o","n"," ","p","a","g","e"," ","3"," ">> }

\* elements of the broader selector: short, of five and of six letters between blanks,
\* with a child of seven letters and a page after it, with a short child, with a blank child
Elements ==
  { [childText |-> undefined, textContent |-> <<"t","i","n","y">>],
    [childText |-> undefined, textContent |-> <<" "," ","a","b","c","d","e"," "," ">>],
    [childText |-> undefined, textContent |-> <<" ","a","b","c","d","e","f"," ">>],
    [childText |-> <<" "," ","h","o","p","e","f","u","l"," "," ">>, textContent |-> <<" "," ","h","o","p","e","f","u","l"," "," ","p","a","g","e"," ","3">>],
    [childText |-> <<"a","b","c">>, textContent |-> <<"a","b","c"," ","a","n","d"," ","m","u","c","h"," ","m","o","r","e">>],
    [childText |-> <<" "," ">>, textContent |-> <<" ","o","n"," ","i","t","s"," ","o","w","n"," ">>] }

\* the sequences over S of at most n members
seqsUpTo(S, n) == UNION {[1..k -> S] : k \in 0..n}

\* HTML exports, each with the document DOMParser returns for it
HtmlTexts ==
  { notClippings(HtmlMarker, [titleText |-> who[1], authorText |-> who[2],
                              noteTexts |-> notes, elements |-> elements]) :
      who \in {<<undefined, undefined>>, <<<<" ","E","m","m","a"," ">>, sJaneAusten>>},
      notes \in seqsUpTo(NoteTexts, MaxElements),
      elements \in seqsUpTo(Elements, MaxElements) }

\* the texts the service is called on
ParserTexts == DispatchTexts \cup EntryTexts \cup GroupTexts \cup HtmlTexts

\* a call of fn on importText returns result
Call(fn, result) ==
  /\ importText # null
  /\ importedBooksData = null
  /\ importedBooksData' = <<[fn |-> fn, result |-> result]>>
  /\ UNCHANGED <<importText, appVars, cameraVars>>

CallParseImportText == Call("parseImportText", parseImportText(importText[1], clock))

CallParseKindleClippings ==
  Call("parseKindleClippings", parseKindleClippings(importText[1].raw, clock))

CallParseHtmlHighlights == Call("parseHtmlHighlights", parseHtmlHighlights(importText[1].doc))

\* a caller holds one of the texts
ParserInit ==
  /\ AppInit
  /\ \E t \in ParserTexts : importText = <<t>>
  /\ importedBooksData = null
  /\ CameraInit

ParserNext ==
  \/ CallParseImportText
  \/ CallParseKindleClippings
  \/ CallParseHtmlHighlights

ParserSpec == ParserInit /\ [][ParserNext]_vars

(***************************************************************************)
(* Properties of the library store.                                        *)
(***************************************************************************)

\* the highlights persisted for the book with identifier bookId
highlightsOf(bookId) == {i \in 1..Len(lsHighlights) : lsHighlights[i].bookId = bookId}

\* C1: every persisted Book's totalHighlights equals the number of persisted highlights
\* whose bookId is that Book's id, after any sequence of library operations.
C1_TotalHighlightsIsCount ==
  \A i \in 1..Len(lsBooks) :
    lsBooks[i].totalHighlights = Cardinality(highlightsOf(lsBooks[i].id))

\* C2: no two persisted highlights have the same bookId and the same text, whichever way
\* they were added (import, manual entry, scan capture).
C2_NoDuplicateText ==
  \A i, j \in 1..Len(lsHighlights) :
    (i # j /\ lsHighlights[i].bookId = lsHighlights[j].bookId)
      => lsHighlights[i].text # lsHighlights[j].text


(***************************************************************************)
(* Properties of handleBulkImport.  done is the call that returned last.   *)
(***************************************************************************)

\* C3: importing the same text twice in a row leaves the library as the first import left
\* it, and the second import adds no highlight, whatever the lookups of either run return.
C3_ReimportIsNoOp ==
  \A i \in 1..Len(completed) :
    LET done == completed[i]
    IN  done.repeat =>
          /\ done.addedCount = 0
          /\ done.allHighlights = done.readHighlights
          /\ done.currentBooks = done.readBooks


\* the highlights the call done appended to the list it read
addedBy(done) == SubSeq(done.allHighlights, Len(done.readHighlights) + 1, Len(done.allHighlights))

\* parsed highlight h of parsed book k of done has the text of a highlight that was stored
\* for the book the parsed book went to
alreadyStored(done, k, h) ==
  \E e \in 1..Len(done.readHighlights) :
    /\ done.readHighlights[e].bookId = done.targets[k]
    /\ done.readHighlights[e].text = h.text

\* C4: a parsed highlight whose text equals the text of a highlight already stored for the
\* matched book is not added again, and the stored highlights are left as they were, page
\* number included.
C4_DuplicateNotReadded ==
  \A c \in 1..Len(completed) :
    LET done == completed[c]
    IN  /\ SubSeq(done.allHighlights, 1, Len(done.readHighlights)) = done.readHighlights
        /\ \A k \in 1..Len(done.parsed) :
             \A i \in 1..Len(done.parsed[k].highlights) :
               alreadyStored(done, k, done.parsed[k].highlights[i]) =>
                 ~\E n \in 1..Len(addedBy(done)) :
                    /\ addedBy(done)[n].bookId = done.targets[k]
                    /\ addedBy(done)[n].text = done.parsed[k].highlights[i].text

\* an import has met a stored highlight with the text of a parsed one and another page number
C4_Witness ==
  /\ completed # <<>>
  /\ lsHighlights = completed[1].allHighlights
  /\ \E k \in 1..Len(completed[1].parsed) :
       \E i \in 1..Len(completed[1].parsed[k].highlights) :
         \E e \in 1..Len(completed[1].readHighlights) :
           /\ completed[1].readHighlights[e].bookId = completed[1].targets[k]
           /\ completed[1].readHighlights[e].text = completed[1].parsed[k].highlights[i].text
           /\ completed[1].readHighlights[e].pageNumber
                # importPageNumber(completed[1].parsed[k].highlights[i].page)
           /\ completed[1].readHighlights[e].thoughts # <<>>

\* C5: when the text parses to no book (unrecognised format, or a recognised one with no
\* usable highlight), the import reports one error to its caller before reconciliation
\* starts: the stored books and highlights stay as they were, no lookup is issued and no
\* summary is produced.
C5_EmptyParseIsOneError ==
  [][(HandleSubmit(MaxImportIds) /\ Len(parseImportText(ImportTexts[text], clock)) = 0)
       => /\ alert = NoAlert
          /\ alert' = NoHighlightsMessage
          /\ lsBooks' = lsBooks
          /\ lsHighlights' = lsHighlights
          /\ imports = <<>>
          /\ imports' = <<>>
          /\ importSummary = null
          /\ importSummary' = null
          /\ completed' = completed]_vars

\* the error is on screen for a My Clippings text that holds only a bookmark and a note
C5_Witness ==
  /\ alert = NoHighlightsMessage
  /\ text = 4
  /\ startsWith(ImportTexts[text].raw, entryBookmark)
  /\ parseImportText(ImportTexts[text], clock) = <<>>

\* the calls of handleBulkImport that have returned last or are waiting for a lookup
importRuns == completed \o imports

\* the call r holds a placeholder Book for its parsed book k, with the highlights of k
hasPlaceholder(r, k) ==
  \E b \in 1..Len(r.currentBooks) :
    /\ r.currentBooks[b].id = r.targets[k]
    /\ r.currentBooks[b].title = r.parsed[k].title
    /\ r.currentBooks[b].author = r.parsed[k].author
    /\ r.currentBooks[b].coverUrl = placeholderCover(r.parsed[k].title)
    /\ \A i \in 1..Len(r.parsed[k].highlights) :
         \E n \in 1..Len(r.allHighlights) :
           /\ r.allHighlights[n].bookId = r.currentBooks[b].id
           /\ r.allHighlights[n].text = r.parsed[k].highlights[i].text

\* C6: when the lookup for a parsed book fails (error, time-out, no result), a placeholder
\* Book with the parsed title and author is created and the parsed highlights are added to
\* it; the import goes on to every remaining parsed book, and the failure is not reported
\* to the caller: the only error shown is the one for a text that parses to nothing.
C6_LookupFailureGivesPlaceholder ==
  /\ \A c \in 1..Len(importRuns) :
       \A l \in 1..Len(importRuns[c].lookups) :
         importRuns[c].lookups[l].meta = null
           => hasPlaceholder(importRuns[c], importRuns[c].lookups[l].k)
  /\ \A c \in 1..Len(completed) :
       /\ Len(completed[c].targets) = Len(completed[c].parsed)
       /\ lsBooks = completed[c].currentBooks
       /\ lsHighlights = completed[c].allHighlights
  /\ alert # NoAlert => (imports = <<>> /\ parseImportText(ImportTexts[text], clock) = <<>>)

\* an import has returned with its summary after a lookup that ended in an error, for a
\* parsed book that was not the last
C6_Witness ==
  /\ completed # <<>>
  /\ importSummary = <<summaryOf(completed[1])>>
  /\ alert = NoAlert
  /\ \E l \in 1..Len(completed[1].lookups) :
       /\ ~completed[1].lookups[l].response.ok
       /\ completed[1].lookups[l].k < Len(completed[1].parsed)
       /\ hasPlaceholder(completed[1], completed[1].lookups[l].k)

\* the import has returned: the library is written and the summary is shown
importReturned ==
  /\ imports = <<>>
  /\ completed # <<>>
  /\ completed[1].parsed # <<>>
  /\ lsBooks = completed[1].currentBooks
  /\ lsHighlights = completed[1].allHighlights
  /\ importSummary = <<summaryOf(completed[1])>>

\* C7: every import started on a text that parses to at least one book eventually writes
\* the library and produces a summary, provided every lookup it issues returns.
C7_ImportReturns == (imports # <<>>) ~> importReturned

\* an import has returned after waiting for two lookups
C7_Witness ==
  /\ completed # <<>>
  /\ importReturned
  /\ Len(completed[1].lookups) >= 2

\* the number of highlights the call done appended while it processed its parsed book k
gained(done, k) == done.marks[k] - (IF k = 1 THEN Len(done.readHighlights) ELSE done.marks[k - 1])

\* the parsed books of done that gained at least one highlight, in parsed order
RECURSIVE gainers(_, _)
gainers(done, k) ==
  IF k > Len(done.parsed) THEN <<>>
  ELSE (IF gained(done, k) > 0 THEN <<k>> ELSE <<>>) \o gainers(done, k + 1)

RECURSIVE sumNewCount(_)
sumNewCount(updates) ==
  IF updates = <<>> THEN 0 ELSE Head(updates).newCount + sumNewCount(Tail(updates))

\* C8: the summary of an import has totalBooksProcessed equal to the number of parsed
\* books, totalHighlightsAdded equal to the number of highlights appended, and updates
\* with exactly one entry {title, newCount} for each parsed book that gained at least one
\* highlight and none for a parsed book that gained none; totalHighlightsAdded is the sum
\* of the newCount values.
C8_SummaryCounts ==
  importSummary # null =>
    LET summary == importSummary[1]
        done    == completed[1]
        gain    == gainers(done, 1)
    IN  /\ summary.totalBooksProcessed = Len(done.parsed)
        /\ summary.totalHighlightsAdded = Len(lsHighlights) - Len(done.readHighlights)
        /\ lsHighlights = done.allHighlights
        /\ Len(done.marks) = Len(done.parsed)
        /\ Len(summary.updates) = Len(gain)
        /\ \A u \in 1..Len(gain) :
             summary.updates[u] = [title |-> done.parsed[gain[u]].title,
                                   newCount |-> gained(done, gain[u])]
        /\ summary.totalHighlightsAdded = sumNewCount(summary.updates)

\* a summary of three parsed books, of which one gained nothing and one gained two highlights
C8_Witness ==
  /\ importSummary # null
  /\ importSummary[1].totalBooksProcessed = 3
  /\ Len(importSummary[1].updates) = 2
  /\ \E u \in 1..2 : importSummary[1].updates[u].newCount = 2
  /\ \E k \in 1..3 : gained(completed[1], k) = 0

\* the parsed book during which done appended the highlight at index n of its list
parsedBookOf(done, n) == Min({k \in 1..Len(done.marks) : n <= done.marks[k]})

\* the place of the text of that highlight among the highlights of its parsed book
placeOf(done, n) ==
  LET hs == done.parsed[parsedBookOf(done, n)].highlights
  IN  Min({i \in 1..Len(hs) : hs[i].text = done.allHighlights[n].text})

\* the indices of the highlights done appended
addedAt(done) == (Len(done.readHighlights) + 1)..Len(done.allHighlights)

\* the highlights done appended follow the ones it read, each for the Book its parsed book
\* went to, in the order of the parsed books and of the highlights within one
highlightsInParsedOrder(done) ==
  /\ SubSeq(done.allHighlights, 1, Len(done.readHighlights)) = done.readHighlights
  /\ Len(done.marks) = Len(done.parsed)
  /\ done.marks # <<>> => done.marks[Len(done.marks)] = Len(done.allHighlights)
  /\ \A n \in addedAt(done) :
       /\ done.allHighlights[n].bookId = done.targets[parsedBookOf(done, n)]
       /\ \E i \in 1..Len(done.parsed[parsedBookOf(done, n)].highlights) :
            done.parsed[parsedBookOf(done, n)].highlights[i].text = done.allHighlights[n].text
  /\ \A n1, n2 \in addedAt(done) :
       n1 < n2 =>
         \/ parsedBookOf(done, n1) < parsedBookOf(done, n2)
         \/ /\ parsedBookOf(done, n1) = parsedBookOf(done, n2)
            /\ placeOf(done, n1) < placeOf(done, n2)

\* the indices in done's book list of the Books it created
createdBooks(done) ==
  {b \in 1..Len(done.currentBooks) :
     \A r \in 1..Len(done.readBooks) : done.readBooks[r].id # done.currentBooks[b].id}

\* the parsed book for which done created the Book at index b
creatorOf(done, b) ==
  Min({k \in 1..Len(done.targets) :
         /\ done.targets[k] = done.currentBooks[b].id
         /\ \E l \in 1..Len(done.lookups) : done.lookups[l].k = k})

\* the entries of updates name parsed books in parsed order
updatesInParsedOrder(done) ==
  LET gain == gainers(done, 1)
  IN  /\ Len(done.updates) = Len(gain)
      /\ \A u \in 1..Len(gain) : done.updates[u].title = done.parsed[gain[u]].title

\* C9 as stated: the highlights are appended in parsed order, the Books an import creates
\* stand in the book list in parsed-book order, and updates is in parsed-book order.
C9_BooksInParsedOrder ==
  \A c \in 1..Len(completed) :
    /\ highlightsInParsedOrder(completed[c])
    /\ \A b1, b2 \in createdBooks(completed[c]) :
         b1 < b2 => creatorOf(completed[c], b1) < creatorOf(completed[c], b2)
    /\ updatesInParsedOrder(completed[c])

\* C9: the parsed books are processed in parsed order: the highlights are appended to the
\* stored list in parsed order and updates is in parsed-book order; each Book the import
\* creates is put at the front of the book list, so the created Books stand before the
\* Books that were there, which keep their order, latest created first.
C9_BooksLatestFirst ==
  \A c \in 1..Len(completed) :
    /\ highlightsInParsedOrder(completed[c])
    /\ \A b1, b2 \in createdBooks(completed[c]) :
         b1 < b2 => creatorOf(completed[c], b1) > creatorOf(completed[c], b2)
    /\ createdBooks(completed[c]) = 1..(Len(completed[c].currentBooks) - Len(completed[c].readBooks))
    /\ \A r \in 1..Len(completed[c].readBooks) :
         completed[c].currentBooks[Len(completed[c].currentBooks) - Len(completed[c].readBooks) + r].id
           = completed[c].readBooks[r].id
    /\ updatesInParsedOrder(completed[c])
    /\ lsBooks = completed[c].currentBooks
    /\ lsHighlights = completed[c].allHighlights

\* an import has created two Books, for its first and for a later parsed book, and has
\* appended two highlights of one parsed book
C9_Witness ==
  /\ completed # <<>>
  /\ Cardinality(createdBooks(completed[1])) >= 2
  /\ \E b \in createdBooks(completed[1]) : creatorOf(completed[1], b) = 1
  /\ \E n \in addedAt(completed[1]) :
       /\ n + 1 \in addedAt(completed[1])
       /\ parsedBookOf(completed[1], n) = parsedBookOf(completed[1], n + 1)
  /\ Len(completed[1].updates) >= 2

\* the indices in done's book list of the Books that were in the list when done looked
\* for the title of its parsed book k: the Books it read and those it created before
listedBefore(done, k) ==
  {b \in 1..Len(done.currentBooks) : b \in createdBooks(done) => creatorOf(done, b) < k}

\* the Books among them whose title is the title of parsed book k, letter case apart
titleMatches(done, k) ==
  {b \in listedBefore(done, k) :
     toLowerCase(done.currentBooks[b].title) = toLowerCase(done.parsed[k].title)}

\* done called searchForBook for its parsed book k
lookedUp(done, k) == \E l \in 1..Len(done.lookups) : done.lookups[l].k = k

\* a parsed book goes to a listed Book exactly when a listed Book has its title, letter
\* case apart and whatever the authors; otherwise, and only then, the lookup is called,
\* with the query "<title> <author>"
mergedByTitle(done) ==
  /\ \A k \in 1..Len(done.targets) :
       /\ lookedUp(done, k) <=> titleMatches(done, k) = {}
       /\ ~lookedUp(done, k) =>
            \E b \in titleMatches(done, k) : done.currentBooks[b].id = done.targets[k]
  /\ \A l \in 1..Len(done.lookups) :
       done.lookups[l].query
         = done.parsed[done.lookups[l].k].title \o <<" ">> \o done.parsed[done.lookups[l].k].author

\* C10: a parsed book is merged into an existing Book exactly when some Book of the list has
\* its title, compared case-insensitively, whatever the authors; the lookup is called only
\* when no Book matches, with the query "<title> <author>"; so two parsed books of one
\* import with the same title and different authors go to the same Book.
C10_SameTitleSameBook ==
  \A c \in 1..Len(completed) :
    /\ mergedByTitle(completed[c])
    /\ \A k1, k2 \in 1..Len(completed[c].parsed) :
         (/\ k1 < k2
          /\ toLowerCase(completed[c].parsed[k1].title) = toLowerCase(completed[c].parsed[k2].title)
          /\ completed[c].parsed[k1].author # completed[c].parsed[k2].author)
           => completed[c].targets[k1] = completed[c].targets[k2]

\* the first two parts of C10 alone
C10_MergedByTitle == \A c \in 1..Len(importRuns) : mergedByTitle(importRuns[c])

(***************************************************************************)
(* Properties of the application with operations that overlap.             *)
(***************************************************************************)

\* C11: at most one import is in flight at any time: from the moment an import is
\* submitted until it has finished, the import trigger is disabled and no second import
\* can be started, in every reachable state of the import dialog.
C11_OneImportInFlight ==
  /\ Len(imports) <= 1
  /\ (imports # <<>> \/ alert = NoHighlightsMessage) => ~CanSubmit

\* a call of handleBulkImport returns in this step
importReturns == Len(imports') < Len(imports) \/ (CanSubmit /\ completed' # completed)

\* C12: an import persists its book list and its highlight list in one step: the step in
\* which the call returns leaves both in the store, so no other operation reads or writes
\* the store between the two writes and no state has the books of an import without its
\* highlights.
C12_BooksAndHighlightsTogether ==
  [][importReturns => /\ completed' # <<>>
                      /\ lsBooks' = completed'[1].currentBooks
                      /\ lsHighlights' = completed'[1].allHighlights]_vars

\* an import that waited for a lookup while the user went on to a book has written its
\* books and its highlights
C12_Witness ==
  /\ completed # <<>>
  /\ completed[1].lookups # <<>>
  /\ completed[1].orphan
  /\ lsBooks = completed[1].currentBooks
  /\ lsHighlights = completed[1].allHighlights
  /\ completed[1].allHighlights # completed[1].readHighlights
  /\ route = "BOOK_DETAILS"

(***************************************************************************)
(* Properties of BookDetail.                                               *)
(***************************************************************************)

\* the sequence seq with the members at the indices in gone left out; the order is kept
RECURSIVE leftOut(_, _, _)
leftOut(seq, gone, i) ==
  IF i > Len(seq) THEN <<>>
  ELSE (IF i \in gone THEN <<>> ELSE <<seq[i]>>) \o leftOut(seq, gone, i + 1)

\* C13: deleting a book, once confirmed, removes that book and every persisted highlight
\* whose bookId is its id, and leaves every other book and every other highlight as it was.
C13_DeleteBookCascades ==
  [][DeleteBook =>
       /\ \A b \in 1..Len(lsBooks') : lsBooks'[b].id # book[1].id
       /\ \A h \in 1..Len(lsHighlights') : lsHighlights'[h].bookId # book[1].id
       /\ lsBooks' = leftOut(lsBooks, {b \in 1..Len(lsBooks) : lsBooks[b].id = book[1].id}, 1)
       /\ lsHighlights'
            = leftOut(lsHighlights,
                      {h \in 1..Len(lsHighlights) : lsHighlights[h].bookId = book[1].id}, 1)]_vars

\* the book added first is gone with its highlight; the book added after it and that
\* book's highlight are still stored
C13_Witness ==
  /\ route = "LIBRARY"
  /\ Len(lsBooks) = 1
  /\ lsBooks[1].id = 3
  /\ lsBooks[1].totalHighlights = 1
  /\ Len(lsHighlights) = 1
  /\ lsHighlights[1].id = 4
  /\ lsHighlights[1].bookId = 3
  /\ nextId = 5

(***************************************************************************)
(* The Moby Dick example.                                                  *)
(***************************************************************************)

\* the import that returned last read the Moby Dick clippings into an empty library, and
\* its summary is on the screen
mobyDickImported ==
  /\ completed # <<>>
  /\ completed[1].text = 7
  /\ completed[1].readBooks = <<>>
  /\ completed[1].readHighlights = <<>>
  /\ importSummary # null
  /\ alert = NoAlert

\* one Book with two highlights, the two highlights of the text, and the summary of them
mobyDickCounts ==
  /\ Len(lsBooks) = 1
  /\ lsBooks[1].totalHighlights = 2
  /\ Len(lsHighlights) = 2
  /\ \A h \in 1..2 : lsHighlights[h].bookId = lsBooks[1].id
  /\ lsHighlights[1].text = sCallMeIshmael
  /\ lsHighlights[1].pageNumber = 10
  /\ lsHighlights[2].text = sItIsAWayIHave
  /\ lsHighlights[2].pageNumber = 20
  /\ importSummary[1] = [totalBooksProcessed |-> 1, totalHighlightsAdded |-> 2,
                         updates |-> <<[title |-> sMobyDick, newCount |-> 2]>>]

returned(fn) == importedBooksData # null /\ importedBooksData[1].fn = fn

\* the first character of raw that is not white space is '<'
startsWithTag(raw) ==
  \E i \in 1..Len(raw) : raw[i] = "<" /\ \A k \in 1..(i - 1) : isSpace(raw[k])

\* raw holds one of the two HTML document markers
hasHtmlMarker(raw) ==
  \E i \in 0..Len(raw) : startsWithAt(raw, DoctypeMarker, i) \/ startsWithAt(raw, HtmlMarker, i)

\* raw holds ten equals signs in a row
hasSeparator(raw) == \E i \in 0..Len(raw) : \A k \in 1..10 : i + k <= Len(raw) /\ raw[i + k] = "="

\* C15: parseImportText parses a text that holds the ten-equals separator as clippings,
\* even when it starts with '<' or holds an HTML marker; otherwise a text that starts with
\* '<' (after trimming) or holds an HTML document marker as HTML; and returns the empty
\* list for every other text.
C15_DispatchPriority ==
  returned("parseImportText") =>
    LET t == importText[1]
    IN  importedBooksData[1].result
          = IF hasSeparator(t.raw) THEN parseKindleClippings(t.raw, clock)
            ELSE IF startsWithTag(t.raw) \/ hasHtmlMarker(t.raw) THEN parseHtmlHighlights(t.doc)
            ELSE <<>>

\* a text that starts with '<' and holds the separator was parsed as clippings, although
\* its document holds a highlight
C15_Witness ==
  /\ returned("parseImportText")
  /\ startsWithTag(importText[1].raw)
  /\ hasSeparator(importText[1].raw)
  /\ parseHtmlHighlights(importText[1].doc) # <<>>
  /\ Len(importedBooksData[1].result) = 1
  /\ importedBooksData[1].result[1].highlights[1].text = sFear

\* the position of the last '(' of line, 0 when it has none
lastParen(line) ==
  IF \E i \in 1..Len(line) : line[i] = "(" THEN Max({i \in 1..Len(line) : line[i] = "("}) ELSE 0

\* the title the title line stands for
statedTitle(line) ==
  IF lastParen(line) > 1 THEN trim(SubSeq(line, 1, lastParen(line) - 1)) ELSE line

\* the text between the last '(' and the final character of line
statedRawAuthor(line) == trim(SubSeq(line, lastParen(line) + 1, Len(line) - 1))

\* the author the title line stands for: "<second part> <first part>" of a raw author
\* with one comma
statedAuthor(line) ==
  LET raw    == statedRawAuthor(line)
      commas == {i \in 1..Len(raw) : raw[i] = ","}
  IN  IF lastParen(line) <= 1 THEN UnknownAuthor
      ELSE IF Cardinality(commas) = 1
        THEN LET c == CHOOSE i \in commas : TRUE
             IN  trim(SubSeq(raw, c + 1, Len(raw))) \o <<" ">> \o trim(SubSeq(raw, 1, c - 1))
      ELSE raw

\* the body of an entry: its lines from the third on, without the blank lines that lead
\* them, joined and trimmed
statedBody(lines) ==
  LET full == {i \in 3..Len(lines) : trim(lines[i]) # <<>>}
  IN  IF full = {} THEN <<>> ELSE trim(join(SubSeq(lines, Min(full), Len(lines)), <<"\n">>))

\* the entry is neither too short, nor without a body, nor a bookmark
retained(lines) ==
  /\ Len(lines) >= 2
  /\ statedBody(lines) # <<>>
  /\ ~(/\ Len(statedBody(lines)) >= 8
       /\ toLowerCase(SubSeq(statedBody(lines), 1, 8)) = BookmarkWord)

\* the places <<book, highlight>> of result whose text is body
spots(result, body) ==
  {p \in UNION {{<<b, h>> : h \in 1..Len(result[b].highlights)} : b \in 1..Len(result)} :
     result[p[1]].highlights[p[2]].text = body}

\* the places of the retained entries of the text; a place is 0 when the body is not at
\* one place
spotOf(result, lines) ==
  IF Cardinality(spots(result, statedBody(lines))) = 1
    THEN CHOOSE p \in spots(result, statedBody(lines)) : TRUE
    ELSE <<0, 0>>

\* the entries i and j of E stand for the same book
sameBook(E, i, j) ==
  /\ toLowerCase(statedTitle(trim(E[i][1]))) = toLowerCase(statedTitle(trim(E[j][1])))
  /\ toLowerCase(statedAuthor(trim(E[i][1]))) = toLowerCase(statedAuthor(trim(E[j][1])))

\* C16: in the output of the clippings parser two retained entries are in the same
\* ParsedBook if and only if their titles are equal case-insensitively and their authors
\* are; the books are in first-encounter order and the highlights of a book in encounter
\* order.  (Checked on files whose retained entries have different bodies.)
C16_GroupedByTitleAndAuthor ==
  (returned("parseKindleClippings") /\ importText[1].entries # <<>>) =>
    LET E      == importText[1].entries
        result == importedBooksData[1].result
        kept   == {i \in 1..Len(E) : retained(E[i])}
        at     == [i \in kept |-> spotOf(result, E[i])]
    IN  (\A i, j \in kept : i # j => statedBody(E[i]) # statedBody(E[j])) =>
          /\ \A i \in kept : at[i][1] # 0
          /\ \A b \in 1..Len(result) : \E i \in kept : at[i][1] = b
          /\ \A i, j \in kept : (at[i][1] = at[j][1]) <=> sameBook(E, i, j)
          /\ \A i, j \in kept : (i < j /\ at[i][1] = at[j][1]) => at[i][2] < at[j][2]
          /\ \A b, c \in 1..Len(result) :
               b < c => Min({i \in kept : at[i][1] = b}) < Min({i \in kept : at[i][1] = c})

\* C17: a clippings entry whose body is empty or begins, in any letter case, with
\* "bookmark" contributes no highlight to any output book; every other entry with at
\* least two lines contributes exactly one highlight, whose text is that body.
C17_OneHighlightPerBody ==
  (returned("parseKindleClippings") /\ importText[1].entries # <<>>) =>
    LET E      == importText[1].entries
        result == importedBooksData[1].result
        kept   == {i \in 1..Len(E) : retained(E[i])}
        texts  == {statedBody(E[i]) : i \in 1..Len(E)}
                    \cup UNION {{result[b].highlights[h].text : h \in 1..Len(result[b].highlights)} :
                                  b \in 1..Len(result)}
    IN  \A v \in texts :
          Cardinality(spots(result, v)) = Cardinality({i \in kept : statedBody(E[i]) = v})

\* the parser returned nothing for a file of one entry whose body begins with "BOOKMARK"
C17_Witness ==
  /\ returned("parseKindleClippings")
  /\ Len(importText[1].entries) = 1
  /\ Len(importText[1].entries[1]) = 4
  /\ startsWith(importText[1].entries[1][4], <<"B","O","O","K","M","A","R","K">>)
  /\ importedBooksData[1].result = <<>>

\* C18: for a clippings title line whose last '(' is at an index > 0, the title is the
\* trimmed text before it and the raw author the text between it and the line's final
\* character; a raw author with a comma that splits into exactly two parts becomes
\* "<second part> <first part>" and is kept as it is otherwise; a line with no '(' or with
\* its last '(' at index 0 is the title, with the author "Unknown Author".
C18_TitleLine ==
  (/\ returned("parseKindleClippings")
   /\ Len(importText[1].entries) = 1
   /\ retained(importText[1].entries[1])) =>
    LET titleLine == trim(importText[1].entries[1][1])
        result    == importedBooksData[1].result
    IN  /\ Len(result) = 1
        /\ result[1].title = statedTitle(titleLine)
        /\ result[1].author = statedAuthor(titleLine)

\* the digits of the first "page <digits>" of t, in any letter case; undefined when t
\* has none
statedPage(t) ==
  LET word  == <<"p","a","g","e"," ">>
      found == {i \in 1..(Len(t) - 5) :
                  /\ toLowerCase(SubSeq(t, i, i + 4)) = word
                  /\ isDigit(t[i + 5])}
      from  == Min(found) + 5
      upTo  == Max({n \in from..Len(t) : \A k \in from..n : isDigit(t[k])})
  IN  IF found = {} THEN undefined ELSE SubSeq(t, from, upTo)

\* C19: page extraction returns the digit run of the first case-insensitive occurrence of
\* "page <digits>" in the text it is applied to, and no page when there is none; the HTML
\* fallback strategy applies the same pattern as the clippings parser, so that both accept
\* and reject the same texts.
C19_SamePagePattern ==
  /\ (/\ returned("parseKindleClippings")
      /\ Len(importText[1].entries) = 1
      /\ retained(importText[1].entries[1]))
       => importedBooksData[1].result[1].highlights[1].page
            = statedPage(trim(importText[1].entries[1][2]))
  /\ (/\ returned("parseHtmlHighlights")
      /\ importText[1].doc.noteTexts = <<>>
      /\ Len(importText[1].doc.elements) = 1
      /\ importedBooksData[1].result # <<>>)
       => importedBooksData[1].result[1].highlights[1].page
            = statedPage(importText[1].doc.elements[1].textContent)

\* the text the broader-selector strategy reads from an element
chosenText(el) == IF trim(el.childText) # <<>> THEN trim(el.childText) ELSE trim(el.textContent)

\* the highlights the HTML parser has to extract from doc, counted
extracted(doc) ==
  IF doc.noteTexts # <<>>
    THEN Cardinality({n \in 1..Len(doc.noteTexts) : trim(doc.noteTexts[n]) # <<>>})
    ELSE Cardinality({e \in 1..Len(doc.elements) : Len(chosenText(doc.elements[e])) > 5})

\* C20: the HTML parser uses the broader-selector strategy if and only if the note-text
\* selector matches no element; note-text highlights carry no page; an element of the
\* broader selector is kept only when its trimmed text is longer than 5 characters; the
\* parser returns exactly one ParsedBook when at least one highlight was extracted and the
\* empty list otherwise.
C20_HtmlStrategies ==
  returned("parseHtmlHighlights") =>
    LET doc    == importText[1].doc
        result == importedBooksData[1].result
        hs     == IF result = <<>> THEN <<>> ELSE result[1].highlights
    IN  /\ Len(result) = (IF extracted(doc) > 0 THEN 1 ELSE 0)
        /\ Len(hs) = extracted(doc)
        /\ doc.noteTexts # <<>> =>
             \A h \in 1..Len(hs) :
               /\ \E n \in 1..Len(doc.noteTexts) : hs[h].text = trim(doc.noteTexts[n])
               /\ hs[h].page = undefined
        /\ doc.noteTexts = <<>> =>
             \A h \in 1..Len(hs) :
               /\ \E e \in 1..Len(doc.elements) : hs[h].text = chosenText(doc.elements[e])
               /\ Len(hs[h].text) > 5

\* the parser returned nothing for a document whose '.noteText' elements are all blank,
\* although it has an element the broader selector would keep
C20_Witness ==
  /\ returned("parseHtmlHighlights")
  /\ importText[1].doc.noteTexts # <<>>
  /\ extracted(importText[1].doc) = 0
  /\ \E e \in 1..Len(importText[1].doc.elements) :
       Len(chosenText(importText[1].doc.elements[e])) > 5
  /\ importedBooksData[1].result = <<>>

\* the highlights of every book of result, as the set of their texts
textsOf(result) ==
  UNION {{result[b].highlights[h].text : h \in 1..Len(result[b].highlights)} :
           b \in 1..Len(result)}

\* C21: every ParsedHighlight the parser returns, for both formats and every input, has a
\* text that is not empty and has no white space at its start or at its end.
C21_TextTrimmedNonEmpty ==
  importedBooksData # null =>
    \A t \in textsOf(importedBooksData[1].result) :
      /\ Len(t) > 0
      /\ ~isSpace(t[1])
      /\ ~isSpace(t[Len(t)])

\* the HTML parser returned a highlight for an element whose text stands between blanks,
\* and the clippings parser one for a body that ends with blanks
C21_Witness ==
  /\ importedBooksData # null
  /\ importedBooksData[1].result # <<>>
  /\ \/ /\ importedBooksData[1].fn = "parseHtmlHighlights"
        /\ importText[1].doc.noteTexts = <<>>
        /\ Len(importText[1].doc.elements) = 1
        /\ isSpace(importText[1].doc.elements[1].textContent[1])
        /\ importText[1].doc.elements[1].childText = undefined
     \/ /\ importedBooksData[1].fn = "parseKindleClippings"
        /\ Len(importText[1].entries) = 1
        /\ Len(importText[1].entries[1]) = 5
        /\ isSpace(importText[1].entries[1][5][1])

(***************************************************************************)
(* More properties of handleBulkImport.                                    *)
(***************************************************************************)

\* the one call that is waiting, as it is after this step: still waiting, or returned
resumedCall == IF imports' = <<>> THEN completed'[1] ELSE imports'[1]

\* the waiting call gets the answer of its lookup in this step and creates a Book
createsBook ==
  /\ Len(imports) = 1
  /\ Len(imports') <= 1
  /\ imports' = <<>> => completed' # <<>>
  /\ Len(resumedCall.lookups) = Len(imports[1].lookups) + 1

\* C22: a Book created by an import, from metadata or as a placeholder, is inserted at
\* index 0 of the book list at the moment it is created, and the books that were in the
\* list keep their relative order.
C22_CreatedAtFront ==
  [][createsBook =>
       LET before == imports[1].currentBooks
           after  == resumedCall.currentBooks
           lookup == resumedCall.lookups[Len(resumedCall.lookups)]
       IN  /\ Len(after) = Len(before) + 1
           /\ \A r \in 1..Len(before) : before[r].id # after[1].id
           /\ after[1].id = resumedCall.targets[lookup.k]
           /\ (lookup.meta = null) => after[1].title = resumedCall.parsed[lookup.k].title
           /\ (lookup.meta # null) => after[1].title = lookup.response.items[1].title
           /\ \A r \in 1..Len(before) :
                /\ after[r + 1].id = before[r].id
                /\ after[r + 1].title = before[r].title]_vars

\* an import that read two Books has created a Book in front of them
C22_Witness ==
  /\ completed # <<>>
  /\ completed[1].lookups # <<>>
  /\ Len(completed[1].readBooks) = 2
  /\ \A r \in 1..2 : completed[1].readBooks[r].id # completed[1].currentBooks[1].id
  /\ \A r \in 1..2 : completed[1].readBooks[r].id = lsBooks[Len(lsBooks) - 2 + r].id
  /\ lsBooks[1].id = completed[1].currentBooks[1].id

(***************************************************************************)
(* Properties of the persisted highlights.                                 *)
(***************************************************************************)

\* the open highlight gets a thought in this step
appendsThought ==
  /\ selectedHighlight # null
  /\ selectedHighlight' # null
  /\ Len(selectedHighlight'[1].thoughts) = Len(selectedHighlight[1].thoughts) + 1

\* new is old with one thought more at the end of its thoughts, and nothing else changed
withOneThoughtMore(old, new) ==
  /\ Len(new.thoughts) = Len(old.thoughts) + 1
  /\ SubSeq(new.thoughts, 1, Len(old.thoughts)) = old.thoughts
  /\ new.id = old.id
  /\ new.bookId = old.bookId
  /\ new.text = old.text
  /\ new.pageNumber = old.pageNumber
  /\ new.createdAt = old.createdAt
  /\ new.source = old.source

\* C23: a persisted highlight is changed only by appending a thought, which adds the
\* thought at the end of that highlight's thoughts and leaves its other fields, every other
\* highlight and every book as they were; no other operation (import, book settings edit,
\* saving another highlight) changes a highlight that exists.
C23_OnlyThoughtsChange ==
  [][/\ \A i \in 1..Len(lsHighlights), j \in 1..Len(lsHighlights') :
          lsHighlights'[j].id = lsHighlights[i].id =>
            \/ lsHighlights'[j] = lsHighlights[i]
            \/ /\ appendsThought
               /\ lsHighlights[i].id = selectedHighlight[1].id
               /\ withOneThoughtMore(lsHighlights[i], lsHighlights'[j])
     /\ appendsThought =>
          /\ lsBooks' = lsBooks
          /\ Len(lsHighlights') = Len(lsHighlights)
          /\ \A i \in 1..Len(lsHighlights) :
               IF lsHighlights[i].id = selectedHighlight[1].id
                 THEN lsHighlights'[i].thoughts # lsHighlights[i].thoughts
                 ELSE lsHighlights'[i] = lsHighlights[i]]_vars

(***************************************************************************)
(* More properties of the import service.                                  *)
(***************************************************************************)

\* the number of '.noteText' elements of doc that have text
noteCount(doc) == Cardinality({n \in 1..Len(doc.noteTexts) : trim(doc.noteTexts[n]) # <<>>})

\* the number of elements of the broader selector of doc that have a text longer than 5
elementCount(doc) ==
  Cardinality({e \in 1..Len(doc.elements) : Len(chosenText(doc.elements[e])) > 5})

\* C24: the HTML strategies are tried in sequence and the first that yields a highlight
\* wins: when the note-text strategy yields none (for example every '.noteText' element is
\* blank), the result of the broader-selector strategy is used.
C24_FirstNonEmptyWins ==
  returned("parseHtmlHighlights") =>
    LET doc    == importText[1].doc
        result == importedBooksData[1].result
        hs     == IF result = <<>> THEN <<>> ELSE result[1].highlights
    IN  IF noteCount(doc) > 0
          THEN /\ Len(hs) = noteCount(doc)
               /\ \A h \in 1..Len(hs) :
                    \E n \in 1..Len(doc.noteTexts) : hs[h].text = trim(doc.noteTexts[n])
          ELSE /\ Len(hs) = elementCount(doc)
               /\ \A h \in 1..Len(hs) :
                    \E e \in 1..Len(doc.elements) : hs[h].text = chosenText(doc.elements[e])

(***************************************************************************)
(* Operations that overlap an import.                                      *)
(***************************************************************************)

\* the identifiers of the members of a stored list
idsOf(list) == {list[i].id : i \in 1..Len(list)}

\* what was added to, or removed from, the list stored now since it was read as read is
\* still added to, or removed from, the list written
changesKept(read, stored, written) ==
  /\ (idsOf(stored) \ idsOf(read)) \subseteq idsOf(written)
  /\ (idsOf(read) \ idsOf(stored)) \cap idsOf(written) = {}

\* C25: an import does not undo what other operations did: every book or highlight that
\* add book, save highlight, delete highlight or delete book added to or removed from the
\* store between the import's read and its write is still added or removed after the
\* write; and an add-book that completes after an import does not remove the import's books.
C25_ImportKeepsOtherChanges ==
  [][/\ (Len(imports') < Len(imports) /\ completed' # <<>>) =>
          /\ changesKept(completed'[1].readBooks, lsBooks, lsBooks')
          /\ changesKept(completed'[1].readHighlights, lsHighlights, lsHighlights')
     /\ (Len(adds') < Len(adds) /\ completed # <<>>) =>
          ((idsOf(completed[1].currentBooks) \ idsOf(completed[1].readBooks)) \cap idsOf(lsBooks))
            \subseteq idsOf(lsBooks')]_vars

\* C26: every ParsedBook parseImportText returns has at least one highlight: a title whose
\* entries are all discarded gives no ParsedBook, and the result is empty exactly when no
\* usable highlight was extracted.
C26_NoEmptyParsedBook ==
  returned("parseImportText") =>
    LET t      == importText[1]
        result == importedBooksData[1].result
    IN  /\ \A b \in 1..Len(result) : Len(result[b].highlights) >= 1
        /\ t.entries # <<>> =>
             ((result = <<>>) <=> (\A i \in 1..Len(t.entries) : ~retained(t.entries[i])))
        /\ (/\ t.entries = <<>>
            /\ ~hasSeparator(t.raw)
            /\ startsWithTag(t.raw) \/ hasHtmlMarker(t.raw)) =>
             ((result = <<>>) <=> (extracted(t.doc) = 0))

\* parseImportText returned the empty list for a file of several entries, all bookmarks
C26_Witness ==
  /\ returned("parseImportText")
  /\ Len(importText[1].entries) >= 2
  /\ \A i \in 1..Len(importText[1].entries) :
       Len(importText[1].entries[i]) >= 2 /\ ~retained(importText[1].entries[i])
  /\ importedBooksData[1].result = <<>>

\* C27: when operations run one at a time, after any sequence of imports,
\* highlight saves and deletes, thought appends, book edits, additions and
\* deletes, every persisted highlight's bookId is the id of a persisted Book
C27_HighlightsBelongToBooks ==
  \A i \in 1..Len(lsHighlights) : lsHighlights[i].bookId \in idsOf(lsBooks)

\* a book of the last import was deleted and another book's highlight is
\* still in the store
C27_Witness ==
  /\ Idle
  /\ completed # <<>>
  /\ \E i \in 1..Len(completed[1].currentBooks) :
       completed[1].currentBooks[i].id \notin idsOf(lsBooks)
  /\ lsBooks # <<>>
  /\ lsHighlights # <<>>

\* C28: an import never adds a Book whose title equals, case-insensitively, the
\* title of a Book already in the list, one that existed before the import or one
\* created earlier in the same import, whatever title the metadata lookup returns
C28_NoSecondBookOfATitle ==
  [][createsBook =>
       LET before == imports[1].currentBooks
           after  == resumedCall.currentBooks
       IN  \A r \in 1..Len(before) :
             toLowerCase(before[r].title) # toLowerCase(after[1].title)]_vars


\* the list allH has, for every highlight text of iBook, a highlight of the Book bookObj
holdsAllOf(allH, bookObj, iBook) ==
  \A i \in 1..Len(iBook.highlights) :
    \E n \in 1..Len(allH) :
      /\ allH[n].bookId = bookObj.id
      /\ allH[n].text = iBook.highlights[i].text

\* C29: after an import completes, for every parsed book there is one persisted Book
\* such that every highlight text of that parsed book is the text of a persisted
\* highlight with that Book's id, and every highlight and book that was persisted when
\* the import read the library is still persisted
C29_ImportedAndKept ==
  [][(completed' # completed \/ Len(imports') < Len(imports)) =>
       LET done == completed'[1]
       IN  /\ \A k \in 1..Len(done.parsed) :
                \E b \in 1..Len(lsBooks') : holdsAllOf(lsHighlights', lsBooks'[b], done.parsed[k])
           /\ \A e \in 1..Len(done.readHighlights) :
                \E n \in 1..Len(lsHighlights') : lsHighlights'[n] = done.readHighlights[e]
           /\ \A r \in 1..Len(done.readBooks) :
                \E b \in 1..Len(lsBooks') :
                  /\ lsBooks'[b].id = done.readBooks[r].id
                  /\ lsBooks'[b].title = done.readBooks[r].title
                  /\ lsBooks'[b].author = done.readBooks[r].author
                  /\ lsBooks'[b].coverUrl = done.readBooks[r].coverUrl]_vars

\* an import of three parsed books has returned into a library that held a book with
\* a highlight: one parsed book went to a Book made from a lookup, one to a stored Book
C29_Witness ==
  /\ imports = <<>>
  /\ completed # <<>>
  /\ Len(completed[1].parsed) >= 2
  /\ completed[1].readHighlights # <<>>
  /\ completed[1].lookups # <<>>
  /\ Len(completed[1].lookups) < Len(completed[1].parsed)
  /\ lsBooks = completed[1].currentBooks
  /\ lsHighlights = completed[1].allHighlights


(***************************************************************************)
(* CameraModal (src/components/CameraModal.tsx).  The page on screen       *)
(* renders one CameraModal and owns its prop isOpen.  The modal renders    *)
(* its <video> only while isOpen holds and error is null, so               *)
(* videoRef.current is null otherwise: React detaches the ref of a removed *)
(* element when it commits the render, before it runs the cleanup and the  *)
(* body of useEffect.  A stream is "live" from the moment getUserMedia     *)
(* returns it until stop() is called on its tracks.                        *)
(***************************************************************************)

\* calls of navigator.mediaDevices.getUserMedia the modal may make
MaxRequests == 3

\* setError("Unable to access camera. Please allow permissions.")
CameraErrorMessage == "Unable to access camera. Please allow permissions."

\* a <video> element as React creates it: srcObject is null
newVideo == <<[srcObject |-> null]>>

\* stopCamera on cam = [videoRef, streams, isStreaming]: nothing when videoRef.current
\* or its srcObject is null
stopCamera(cam) ==
  IF cam.videoRef # null /\ cam.videoRef[1].srcObject # null
    THEN [videoRef    |-> newVideo,
          streams     |-> [cam.streams EXCEPT ![cam.videoRef[1].srcObject[1]] = "ended"],
          isStreaming |-> FALSE]
    ELSE cam

\* isOpen becomes false: the modal renders null, the <video> is removed, then the
\* cleanup of the effect (stopCamera) and the effect (stopCamera) run
closeModal ==
  LET cam == stopCamera(stopCamera([videoRef |-> null, streams |-> streams,
                                    isStreaming |-> isStreaming]))
  IN  /\ isOpen' = FALSE
      /\ videoRef' = cam.videoRef
      /\ streams' = cam.streams
      /\ isStreaming' = cam.isStreaming
      /\ UNCHANGED <<error, requests>>

\* startCamera up to await getUserMedia: setError(null) renders the <video> if the
\* error text was on screen
startCamera ==
  /\ Len(requests) + Len(streams) < MaxRequests
  /\ error' = null
  /\ videoRef' = IF videoRef # null THEN videoRef ELSE newVideo
  /\ requests' = Append(requests, [orphan |-> FALSE])
  /\ UNCHANGED <<isStreaming, streams>>

\* the page sets isOpen: the effect's cleanup (stopCamera, with no <video> rendered)
\* and the effect (startCamera) run
OpenCamera ==
  /\ ~isOpen
  /\ isOpen' = TRUE
  /\ startCamera
  /\ UNCHANGED <<captured, appVars, parserVars>>

\* the X button: onClose
CloseCamera ==
  /\ isOpen
  /\ closeModal
  /\ UNCHANGED <<captured, appVars, parserVars>>

\* the capture button: takePhoto draws the frame, calls onCapture and onClose
TakePhoto ==
  /\ isOpen
  /\ videoRef # null
  /\ captured < MaxRequests
  /\ captured' = captured + 1
  /\ closeModal
  /\ UNCHANGED <<appVars, parserVars>>

\* the Retry button, rendered with the error text: startCamera
Retry ==
  /\ isOpen
  /\ error # null
  /\ startCamera
  /\ UNCHANGED <<isOpen, captured, appVars, parserVars>>

\* getUserMedia resolves for the call j: the stream is attached and played if
\* videoRef.current is not null, and dropped otherwise
GetUserMediaResolves(j) ==
  /\ j \in 1..Len(requests)
  /\ requests' = without(requests, j)
  /\ streams' = Append(streams, "live")
  /\ IF ~requests[j].orphan /\ videoRef # null
       THEN /\ videoRef' = <<[srcObject |-> <<Len(streams) + 1>>]>>
            /\ isStreaming' = TRUE
       ELSE UNCHANGED <<videoRef, isStreaming>>
  /\ UNCHANGED <<isOpen, error, captured, appVars, parserVars>>

\* getUserMedia rejects for the call j: catch sets the error text, which replaces the
\* <video>; the setter of an unmounted modal does nothing
GetUserMediaRejects(j) ==
  /\ j \in 1..Len(requests)
  /\ requests' = without(requests, j)
  /\ IF requests[j].orphan
       THEN UNCHANGED <<error, videoRef>>
       ELSE /\ error' = <<CameraErrorMessage>>
            /\ videoRef' = null
  /\ UNCHANGED <<isOpen, isStreaming, streams, captured, appVars, parserVars>>

\* the user leaves the page: its CameraModal unmounts and the cleanup of the effect
\* (stopCamera) runs, with the ref still attached or already detached, as the React
\* in use orders the two; the page shown next mounts a CameraModal with isOpen false
LeavePage ==
  /\ \E attached \in BOOLEAN :
       LET cam == stopCamera([videoRef |-> IF attached THEN videoRef ELSE null,
                              streams |-> streams, isStreaming |-> isStreaming])
       IN  streams' = cam.streams
  /\ requests' = [j \in 1..Len(requests) |-> [orphan |-> TRUE]]
  /\ isOpen' = FALSE
  /\ error' = null
  /\ isStreaming' = FALSE
  /\ videoRef' = null
  /\ UNCHANGED <<captured, appVars, parserVars>>

CameraNext ==
  \/ OpenCamera
  \/ CloseCamera
  \/ TakePhoto
  \/ Retry
  \/ \E j \in 1..MaxRequests : GetUserMediaResolves(j)
  \/ \E j \in 1..MaxRequests : GetUserMediaRejects(j)
  \/ LeavePage

\* the camera modal of the page on screen, with the rest of the application at rest
CameraSpec == Init /\ [][CameraNext]_vars

\* C30: whenever the camera modal is closed (isOpen false or unmounted), no camera
\* stream it acquired is still running, also when the modal is closed while the
\* camera-permission request is pending and the request resolves afterwards
C30_ClosedCameraIsStopped ==
  ~isOpen => \A s \in 1..Len(streams) : streams[s] = "ended"


====
